---- MODULE Spec2Model ----
(***************************************************************************)
(* Planning-poker backend: the in-memory store (InMemoryDatabase), the     *)
(* room utilities, the player / room / estimation services and the         *)
(* socket.io gateway (WebSocketService), as one state machine.             *)
(*                                                                         *)
(* A JS Map is an insertion-ordered sequence of entries, an optional       *)
(* value (T | undefined) is the empty sequence or a one-element sequence,  *)
(* a thrown Error is a non-empty "err" string in the operator's result.    *)
(***************************************************************************)
EXTENDS Integers, Sequences, FiniteSets, TLC

\* ------------------------------------------------------------------ bounds
MaxPlayers == 3
\* the longest participant list the store operations are driven to
MaxEntries == 2

\* ------------------------------------------------- inputs the clients send
Sockets == {"s1", "s2"}
\* room ids as character sequences: "A ", "" (one room) and "A", "B " (two)
RoomInputs == { <<"A", " ">>, <<>> }
RoomInputs2 == { <<"A">>, <<"B", " ">> }
\* player names as character sequences: "a", "A", " b", " "
NameInputs == { <<"a">>, <<"A">>, <<" ", "b">>, <<" ">> }
NameInputs2 == { <<"a">> }
\* BRK is the break token of the deck; MOJI is the three-character literal
\* that stands in its place in the gateway's validCards list
CardInputs == {"3", "8", "BRK", "MOJI"}
CardInputs2 == {"3"}

PLANNING_POKER_DECK == <<"0.5", "1", "2", "3", "5", "8", "13", "21", "?", "BRK">>
validCards == <<"0.5", "1", "2", "3", "5", "8", "13", "21", "?", "MOJI">>
MaxNameLen == 30

\* --------------------------------------------------------- string helpers
Range(s) == { s[i] : i \in 1..Len(s) }
includes(s, v) == v \in Range(s)

toLowerChar(c) == IF c = "A" THEN "a" ELSE IF c = "B" THEN "b" ELSE c
toLowerCase(s) == [i \in 1..Len(s) |-> toLowerChar(s[i])]

RECURSIVE trimStart(_)
trimStart(s) == IF s # <<>> /\ Head(s) = " " THEN trimStart(Tail(s)) ELSE s
RECURSIVE trimEnd(_)
trimEnd(s) ==
  IF s # <<>> /\ s[Len(s)] = " " THEN trimEnd(SubSeq(s, 1, Len(s) - 1)) ELSE s
trim(s) == trimEnd(trimStart(s))

\* ------------------------------------------------------------ Map helpers
MapHas(m, k) == \E i \in 1..Len(m) : m[i].id = k
MapGet(m, k) == m[CHOOSE i \in 1..Len(m) : m[i].id = k].v
MapKeys(m) == { m[i].id : i \in 1..Len(m) }
MapDelete(m, k) == SelectSeq(m, LAMBDA e : e.id # k)
MapSet(m, k, val) ==
  IF MapHas(m, k)
  THEN [i \in 1..Len(m) |-> IF m[i].id = k THEN [id |-> k, v |-> val] ELSE m[i]]
  ELSE Append(m, [id |-> k, v |-> val])
\* a partial function (Map keyed by id) without key k
Without(f, k) == [x \in (DOMAIN f) \ {k} |-> f[x]]
Range2(f) == { f[x] : x \in DOMAIN f }
Put(f, k, val) == [x \in (DOMAIN f) \cup {k} |-> IF x = k THEN val ELSE f[x]]

\* index of the first element satisfying the test, 0 when none (Array.find)
FindIndex(s, Test(_)) ==
  IF \E i \in 1..Len(s) : Test(s[i])
  THEN CHOOSE i \in 1..Len(s) : Test(s[i]) /\ \A j \in 1..(i - 1) : ~Test(s[j])
  ELSE 0

\* ------------------------------------------------------- InMemoryDatabase
\* db is [rooms, roomOrder, playerRoomMap]; rooms maps a room id to
\* [players, currentRound], currentRound being <<>> or <<[cards, isRevealed]>>;
\* roomOrder is the iteration order of the rooms Map (insertion order)
EmptyMap == [x \in {} |-> x]
EmptyDb == [rooms |-> EmptyMap, roomOrder |-> <<>>, playerRoomMap |-> EmptyMap]

dbCreateRoom(db, roomId) ==
  [db EXCEPT !.rooms = Put(@, roomId, [players |-> <<>>, currentRound |-> <<>>]),
             !.roomOrder = IF roomId \in DOMAIN db.rooms THEN @
                           ELSE Append(@, roomId)]

\* deleteRoom: the reverse mappings of the players in the room's list go too
deleteRoom(db, roomId) ==
  IF roomId \notin DOMAIN db.rooms THEN [db |-> db, ok |-> FALSE]
  ELSE LET members == Range([i \in 1..Len(db.rooms[roomId].players) |->
                               db.rooms[roomId].players[i].id])
       IN [db |-> [rooms |-> Without(db.rooms, roomId),
                   roomOrder |-> SelectSeq(db.roomOrder, LAMBDA r : r # roomId),
                   playerRoomMap |->
                     [q \in (DOMAIN db.playerRoomMap) \ members |->
                        db.playerRoomMap[q]]],
           ok |-> TRUE]

\* <<>> is null
getRoom(db, roomId) ==
  IF roomId \in DOMAIN db.rooms THEN <<db.rooms[roomId]>> ELSE <<>>

getAllRooms(db) == db.roomOrder

removePlayerFromRoom_unrevealedOnly(db, roomId, playerId) ==
  IF roomId \notin DOMAIN db.rooms THEN [db |-> db, ok |-> FALSE]
  ELSE
    LET room == db.rooms[roomId]
        updatedPlayers == SelectSeq(room.players, LAMBDA p : p.id # playerId)
        updatedRound ==
          IF room.currentRound # <<>> /\ ~room.currentRound[1].isRevealed
          THEN <<[room.currentRound[1] EXCEPT !.cards = MapDelete(@, playerId)]>>
          ELSE room.currentRound
    IN [db |-> [db EXCEPT !.rooms[roomId] =
                             [players |-> updatedPlayers,
                              currentRound |-> updatedRound],
                           !.playerRoomMap = Without(@, playerId)],
        ok |-> TRUE]

removePlayerFromRoom_keepVote(db, roomId, playerId) ==
  IF roomId \notin DOMAIN db.rooms THEN [db |-> db, ok |-> FALSE]
  ELSE
    LET room == db.rooms[roomId]
        updatedPlayers == SelectSeq(room.players, LAMBDA p : p.id # playerId)
    IN [db |-> [db EXCEPT !.rooms[roomId] =
                             [players |-> updatedPlayers,
                              currentRound |-> room.currentRound],
                           !.playerRoomMap = Without(@, playerId)],
        ok |-> TRUE]

removePlayerFromRoom_dropRound(db, roomId, playerId) ==
  IF roomId \notin DOMAIN db.rooms THEN [db |-> db, ok |-> FALSE]
  ELSE
    LET room == db.rooms[roomId]
        updatedPlayers == SelectSeq(room.players, LAMBDA p : p.id # playerId)
        updatedRound ==
          IF room.currentRound # <<>> /\ updatedPlayers # <<>>
          THEN <<[room.currentRound[1] EXCEPT !.cards = MapDelete(@, playerId)]>>
          ELSE <<>>
    IN [db |-> [db EXCEPT !.rooms[roomId] =
                             [players |-> updatedPlayers,
                              currentRound |-> updatedRound],
                           !.playerRoomMap = Without(@, playerId)],
        ok |-> TRUE]

removePlayerFromRoom(db, roomId, playerId) ==
  IF roomId \notin DOMAIN db.rooms THEN [db |-> db, ok |-> FALSE]
  ELSE
    LET room == db.rooms[roomId]
        updatedPlayers == SelectSeq(room.players, LAMBDA p : p.id # playerId)
        updatedRound ==
          IF room.currentRound # <<>>
          THEN <<[room.currentRound[1] EXCEPT !.cards = MapDelete(@, playerId)]>>
          ELSE room.currentRound
    IN [db |-> [db EXCEPT !.rooms[roomId] =
                             [players |-> updatedPlayers,
                              currentRound |-> updatedRound],
                           !.playerRoomMap = Without(@, playerId)],
        ok |-> TRUE]

removePlayerFromCurrentRoom(db, playerId) ==
  IF playerId \notin DOMAIN db.playerRoomMap THEN [db |-> db, ok |-> FALSE]
  ELSE removePlayerFromRoom(db, db.playerRoomMap[playerId], playerId)

\* the room object is read before the removal and written back after it
addPlayerToRoom(db, roomId, player) ==
  IF roomId \notin DOMAIN db.rooms THEN [db |-> db, ok |-> FALSE]
  ELSE
    LET room == db.rooms[roomId]
        db1 == removePlayerFromCurrentRoom(db, player.id).db
    IN [db |-> [db1 EXCEPT !.rooms[roomId] =
                              [room EXCEPT !.players = Append(@, player)],
                            !.playerRoomMap = Put(@, player.id, roomId)],
        ok |-> TRUE]

updatePlayerInRoom_anyRound(db, roomId, playerId, isConnected) ==
  IF roomId \notin DOMAIN db.rooms THEN [db |-> db, ok |-> FALSE]
  ELSE
    LET room == db.rooms[roomId]
        playerIndex == FindIndex(room.players, LAMBDA p : p.id = playerId)
        updatedPlayers ==
          [room.players EXCEPT ![playerIndex].isConnected = isConnected]
        updatedRound ==
          IF isConnected = FALSE /\ room.currentRound # <<>>
          THEN <<[room.currentRound[1] EXCEPT !.cards = MapDelete(@, playerId)]>>
          ELSE room.currentRound
    IN IF playerIndex = 0 THEN [db |-> db, ok |-> FALSE]
       ELSE [db |-> [db EXCEPT !.rooms[roomId] =
                        [players |-> updatedPlayers,
                         currentRound |-> updatedRound]],
             ok |-> TRUE]

updatePlayerInRoom(db, roomId, playerId, isConnected) ==
  IF roomId \notin DOMAIN db.rooms THEN [db |-> db, ok |-> FALSE]
  ELSE
    LET room == db.rooms[roomId]
        playerIndex == FindIndex(room.players, LAMBDA p : p.id = playerId)
        updatedPlayers ==
          [room.players EXCEPT ![playerIndex].isConnected = isConnected]
        updatedRound ==
          IF isConnected = FALSE /\ room.currentRound # <<>>
             /\ ~room.currentRound[1].isRevealed
          THEN <<[room.currentRound[1] EXCEPT !.cards = MapDelete(@, playerId)]>>
          ELSE room.currentRound
    IN IF playerIndex = 0 THEN [db |-> db, ok |-> FALSE]
       ELSE [db |-> [db EXCEPT !.rooms[roomId] =
                        [players |-> updatedPlayers,
                         currentRound |-> updatedRound]],
             ok |-> TRUE]

setCurrentRound(db, roomId, round) ==
  IF roomId \notin DOMAIN db.rooms THEN [db |-> db, ok |-> FALSE]
  ELSE [db |-> [db EXCEPT !.rooms[roomId].currentRound = round], ok |-> TRUE]

getCurrentRound(db, roomId) ==
  IF roomId \notin DOMAIN db.rooms THEN <<>> ELSE db.rooms[roomId].currentRound

addCardToCurrentRound_keepFirst(db, roomId, playerId, cardValue) ==
  IF roomId \notin DOMAIN db.rooms \/ getCurrentRound(db, roomId) = <<>>
  THEN [db |-> db, ok |-> FALSE]
  ELSE [db |-> [db EXCEPT !.rooms[roomId].currentRound[1].cards =
                   IF MapHas(@, playerId) THEN @
                   ELSE MapSet(@, playerId, cardValue)],
        ok |-> TRUE]

addCardToCurrentRound(db, roomId, playerId, cardValue) ==
  IF roomId \notin DOMAIN db.rooms \/ getCurrentRound(db, roomId) = <<>>
  THEN [db |-> db, ok |-> FALSE]
  ELSE [db |-> [db EXCEPT !.rooms[roomId].currentRound[1].cards =
                   MapSet(@, playerId, cardValue)],
        ok |-> TRUE]

revealCardsInCurrentRound(db, roomId) ==
  IF roomId \notin DOMAIN db.rooms \/ getCurrentRound(db, roomId) = <<>>
  THEN [db |-> db, ok |-> FALSE]
  ELSE [db |-> [db EXCEPT !.rooms[roomId].currentRound[1].isRevealed = TRUE],
        ok |-> TRUE]

getPlayerRoom(db, playerId) ==
  IF playerId \in DOMAIN db.playerRoomMap THEN <<db.playerRoomMap[playerId]>>
  ELSE <<>>


\* ------------------------------------------------------------- room-utils
createPlayer(name, id) == [id |-> id, name |-> trim(name), isConnected |-> TRUE]

JoinFailure(db, msg) ==
  [db |-> db, success |-> FALSE, player |-> <<>>, room |-> <<>>,
   created |-> FALSE, error |-> msg]

\* the name test of joinRoom
sameName_exact(p, playerName) == p.name = playerName

sameName(p, playerName) == toLowerCase(p.name) = toLowerCase(playerName)

\* the reconnection branch of joinRoom: the existing player is disconnected
reconnectPlayer_viaAdd(db, roomId, existingPlayer) ==
  LET a == addPlayerToRoom(db, roomId,
                           [existingPlayer EXCEPT !.isConnected = TRUE])
  IN [db |-> a.db, success |-> TRUE,
      player |-> <<[existingPlayer EXCEPT !.isConnected = TRUE]>>,
      room |-> <<a.db.rooms[roomId]>>, created |-> FALSE, error |-> ""]

reconnectPlayer(db, roomId, existingPlayer) ==
  LET u == updatePlayerInRoom(db, roomId, existingPlayer.id, TRUE)
      updatedRoom == u.db.rooms[roomId]
      i2 == FindIndex(updatedRoom.players, LAMBDA p : p.id = existingPlayer.id)
  IN IF ~u.ok THEN JoinFailure(db, "Failed to reconnect player")
     ELSE [db |-> u.db, success |-> TRUE, player |-> <<updatedRoom.players[i2]>>,
           room |-> <<updatedRoom>>, created |-> FALSE, error |-> ""]

\* newId is the id uuidv4() hands out if a player is created
joinRoomUtil(db, roomId, playerName, newId) ==
  IF roomId \notin DOMAIN db.rooms THEN JoinFailure(db, "Room not found")
  ELSE
    LET room == db.rooms[roomId]
        idx == FindIndex(room.players, LAMBDA p : sameName(p, playerName))
    IN IF idx # 0
       THEN IF ~room.players[idx].isConnected
            THEN reconnectPlayer(db, roomId, room.players[idx])
            ELSE JoinFailure(db, "Player name already taken in this room")
       ELSE LET player == createPlayer(playerName, newId)
                a == addPlayerToRoom(db, roomId, player)
            IN IF ~a.ok THEN JoinFailure(db, "Failed to join room")
               ELSE [db |-> a.db, success |-> TRUE, player |-> <<player>>,
                     room |-> <<a.db.rooms[roomId]>>, created |-> TRUE,
                     error |-> ""]

leaveRoomUtil(db, playerId) ==
  IF playerId \notin DOMAIN db.playerRoomMap
  THEN [db |-> db, success |-> FALSE, roomId |-> <<>>]
  ELSE LET roomId == db.playerRoomMap[playerId]
           r == removePlayerFromRoom(db, roomId, playerId)
       IN [db |-> r.db, success |-> r.ok,
           roomId |-> IF r.ok THEN <<roomId>> ELSE <<>>]

updatePlayerConnectionStatus(db, playerId, isConnected) ==
  IF playerId \notin DOMAIN db.playerRoomMap
  THEN [db |-> db, success |-> FALSE, roomId |-> <<>>]
  ELSE LET roomId == db.playerRoomMap[playerId]
           u == updatePlayerInRoom(db, roomId, playerId, isConnected)
       IN [db |-> u.db, success |-> u.ok,
           roomId |-> IF u.ok THEN <<roomId>> ELSE <<>>]

isEstimationComplete(db, roomId) ==
  IF roomId \notin DOMAIN db.rooms \/ getCurrentRound(db, roomId) = <<>>
  THEN FALSE
  ELSE LET connectedPlayers ==
             SelectSeq(db.rooms[roomId].players, LAMBDA p : p.isConnected)
       IN Len(connectedPlayers) > 0
          /\ \A i \in 1..Len(connectedPlayers) :
                MapHas(getCurrentRound(db, roomId)[1].cards,
                       connectedPlayers[i].id)

\* ---------------------------------------------- player and room services
\* PlayerService.joinRoom
joinRoom(db, roomId, playerName, newId) ==
  IF roomId = <<>> \/ playerName = <<>>
  THEN JoinFailure(db, "Room ID and player name are required")
  ELSE IF roomId \notin DOMAIN db.rooms THEN JoinFailure(db, "Room not found")
  ELSE joinRoomUtil(db, roomId, playerName, newId)

\* PlayerService.leaveRoom
leaveRoom(db, playerId) == leaveRoomUtil(db, playerId)

\* PlayerService.updateConnectionStatus
updateConnectionStatus(db, playerId, isConnected) ==
  updatePlayerConnectionStatus(db, playerId, isConnected)

\* PlayerService.getPlayerInRoom
getPlayerInRoom(db, playerId, roomId) ==
  IF roomId \notin DOMAIN db.rooms THEN <<>>
  ELSE LET ps == db.rooms[roomId].players
           i == FindIndex(ps, LAMBDA p : p.id = playerId)
       IN IF i = 0 THEN <<>> ELSE <<ps[i]>>

MaxRoomNameLen == 100

createRoom_overwrite(db, roomName) ==
  IF roomName = <<>> \/ Len(trim(roomName)) = 0
  THEN [db |-> db, err |-> "Room name cannot be empty", room |-> <<>>]
  ELSE IF Len(trim(roomName)) > MaxRoomNameLen
  THEN [db |-> db, err |-> "Room name cannot exceed 100 characters",
        room |-> <<>>]
  ELSE [db |-> dbCreateRoom(db, trim(roomName)), err |-> "",
        room |-> getRoom(dbCreateRoom(db, trim(roomName)), trim(roomName))]

\* RoomServiceImpl.createRoom; room is the Room returned
createRoom(db, roomName) ==
  IF roomName = <<>> \/ Len(trim(roomName)) = 0
  THEN [db |-> db, err |-> "Room name cannot be empty", room |-> <<>>]
  ELSE IF Len(trim(roomName)) > MaxRoomNameLen
  THEN [db |-> db, err |-> "Room name cannot exceed 100 characters",
        room |-> <<>>]
  ELSE IF trim(roomName) \in DOMAIN db.rooms
  THEN [db |-> db, err |-> "", room |-> getRoom(db, trim(roomName))]
  ELSE [db |-> dbCreateRoom(db, trim(roomName)), err |-> "",
        room |-> getRoom(dbCreateRoom(db, trim(roomName)), trim(roomName))]

\* RoomServiceImpl.getRoomState
getRoomState(db, roomId) == IF roomId = <<>> THEN <<>> ELSE getRoom(db, roomId)

\* ------------------------------------------------------------- statistics
\* the cards of the Result: one entry per submission, in Map iteration order
ResultCards(room) ==
  LET cards == room.currentRound[1].cards
      nameOf(pid) ==
        LET i == FindIndex(room.players, LAMBDA p : p.id = pid)
        IN IF i = 0 THEN <<"Unknown">> ELSE room.players[i].name
  IN [i \in 1..Len(cards) |->
        [playerId |-> cards[i].id, playerName |-> nameOf(cards[i].id),
         cardValue |-> cards[i].v]]

\* parseFloat of a card value, in halves (0.5 is 1, 21 is 42); <<>> is NaN
parseFloat(value) ==
  CASE value = "0.5" -> <<1>>
    [] value = "1" -> <<2>>
    [] value = "2" -> <<4>>
    [] value = "3" -> <<6>>
    [] value = "5" -> <<10>>
    [] value = "8" -> <<16>>
    [] value = "13" -> <<26>>
    [] value = "21" -> <<42>>
    [] OTHER -> <<>>

RECURSIVE Sum(_)
Sum(s) == IF s = <<>> THEN 0 ELSE Head(s) + Sum(Tail(s))

\* numericCards, in halves, in the order of the card values
NumericCards(cardValues) ==
  LET parsed == [i \in 1..Len(cardValues) |-> parseFloat(cardValues[i])]
      kept == SelectSeq(parsed, LAMBDA x : x # <<>>)
  IN [i \in 1..Len(kept) |-> kept[i][1]]

\* Number.prototype.toString of a number given in quarters (0.75 is 3), as
\* the characters of the text
Digit(d) == <<"0", "1", "2", "3", "4", "5", "6", "7", "8", "9">>[d + 1]

numberToString(q) ==
  LET whole == q \div 4
      digits == IF whole >= 10
                THEN <<Digit(whole \div 10), Digit(whole % 10)>>
                ELSE <<Digit(whole)>>
      fraction == CASE q % 4 = 0 -> <<>>
                    [] q % 4 = 1 -> <<".", "2", "5">>
                    [] q % 4 = 2 -> <<".", "5">>
                    [] OTHER -> <<".", "7", "5">>
  IN digits \o fraction

\* the characters of a card value
textOf(value) ==
  CASE value = "0.5" -> <<"0", ".", "5">>
    [] value = "13" -> <<"1", "3">>
    [] value = "21" -> <<"2", "1">>
    [] OTHER -> <<value>>

\* numericCards.sort((a, b) => a - b)
Insert(x, s) ==
  LET k == Cardinality({ i \in 1..Len(s) : s[i] <= x })
  IN SubSeq(s, 1, k) \o <<x>> \o SubSeq(s, k + 1, Len(s))

RECURSIVE sortAscending(_)
sortAscending(s) ==
  IF s = <<>> THEN <<>> ELSE Insert(Head(s), sortAscending(Tail(s)))

\* nonNumericCards, in the order of the card values
NonNumericCards(cardValues) ==
  SelectSeq(cardValues, LAMBDA v : parseFloat(v) = <<>>)

\* the median of the statistics, as text: the middle of the sorted numeric
\* cards (the mean of the two middle ones for an even number of them), the
\* first non-numeric card without numeric cards, "0" without cards
median_upperMiddle(cardValues) ==
  LET numericCards == NumericCards(cardValues)
      sortedNumeric == sortAscending(numericCards)
      midIndex == Len(sortedNumeric) \div 2
  IN IF Len(numericCards) > 0
     THEN numberToString(2 * sortedNumeric[midIndex + 1])
     ELSE IF Len(NonNumericCards(cardValues)) > 0
          THEN textOf(NonNumericCards(cardValues)[1])
          ELSE <<"0">>

median(cardValues) ==
  LET numericCards == NumericCards(cardValues)
      sortedNumeric == sortAscending(numericCards)
      midIndex == Len(sortedNumeric) \div 2
  IN IF Len(numericCards) > 0
     THEN IF Len(sortedNumeric) % 2 = 0
          THEN numberToString(sortedNumeric[midIndex]
                              + sortedNumeric[midIndex + 1])
          ELSE numberToString(2 * sortedNumeric[midIndex + 1])
     ELSE IF Len(NonNumericCards(cardValues)) > 0
          THEN textOf(NonNumericCards(cardValues)[1])
          ELSE <<"0">>

\* [...new Set(cardValues)]: each value once, in the order of first occurrence
uniqueValues(cardValues) ==
  LET first == { i \in 1..Len(cardValues) :
                   \A j \in 1..(i - 1) : cardValues[j] # cardValues[i] }
      idx == [k \in 1..Cardinality(first) |->
                CHOOSE i \in first :
                  Cardinality({ j \in first : j < i }) = k - 1]
  IN [k \in 1..Len(idx) |-> cardValues[idx[k]]]

\* the values of the deck by their index in the deck, then the other values
\* (which do not occur among the inputs of this model) as they are met
sortCardValuesByDeckOrder_asMet(values) == values

sortCardValuesByDeckOrder(values) ==
  LET indexOf(v) == FindIndex(PLANNING_POKER_DECK, LAMBDA d : d = v)
      deckValues == SelectSeq(values, LAMBDA v : indexOf(v) # 0)
      others == SelectSeq(values, LAMBDA v : indexOf(v) = 0)
      sorted == sortAscending(
                  [i \in 1..Len(deckValues) |-> indexOf(deckValues[i])])
  IN [i \in 1..Len(sorted) |-> PLANNING_POKER_DECK[sorted[i]]] \o others

range(cardValues) == sortCardValuesByDeckOrder(uniqueValues(cardValues))

\* the largest and the smallest of a non-empty sequence of numbers
Max(s) == CHOOSE x \in Range(s) : \A y \in Range(s) : y <= x
Min(s) == CHOOSE x \in Range(s) : \A y \in Range(s) : x <= y

\* (max - min) > 2 || (min > 0 && max / min > 2), on numbers in halves
Spread(numericCards) ==
  LET max == Max(numericCards)
      min == Min(numericCards)
  IN (max - min) > 4 \/ (min > 0 /\ max > 2 * min)

\* the hasVariance of the statistics
hasVariance_differenceOnly(cardValues) ==
  LET numericCards == NumericCards(cardValues)
  IN Len(numericCards) > 0
     /\ Max(numericCards) - Min(numericCards) > 4

hasVariance(cardValues) ==
  LET numericCards == NumericCards(cardValues)
  IN Len(numericCards) > 0 /\ Spread(numericCards)

\* hasSignificantVariance: false with fewer than two numeric cards
hasSignificantVariance(cardValues) ==
  LET numericCards == NumericCards(cardValues)
  IN IF Len(numericCards) < 2 THEN FALSE ELSE Spread(numericCards)

\* the average of the statistics, in hundredths: Math.round(average * 100)
\* with average = sum / length of the numeric cards, 0 without numeric cards
calculateStatistics_allInCount(cardValues) ==
  LET numericCards == NumericCards(cardValues)
  IN [average |-> IF Len(numericCards) > 0
                  THEN (100 * Sum(numericCards) + Len(cardValues))
                         \div (2 * Len(cardValues))
                  ELSE 0,
      median |-> median(cardValues),
      range |-> range(cardValues),
      hasVariance |-> hasVariance(cardValues)]

calculateStatistics(cardValues) ==
  LET numericCards == NumericCards(cardValues)
  IN [average |-> IF Len(numericCards) > 0
                  THEN (100 * Sum(numericCards) + Len(numericCards))
                         \div (2 * Len(numericCards))
                  ELSE 0,
      median |-> median(cardValues),
      range |-> range(cardValues),
      hasVariance |-> hasVariance(cardValues)]

\* the Result of a revealed room: its cards and the statistics of their values
ResultOf(room) ==
  LET cards == ResultCards(room)
  IN [cards |-> cards,
      statistics |-> IF Len(cards) = 0
                     THEN [average |-> 0, median |-> <<"0">>,
                           range |-> <<>>, hasVariance |-> FALSE]
                     ELSE calculateStatistics(
                            [i \in 1..Len(cards) |-> cards[i].cardValue])]

\* <<>> is null
calculateEstimationResult_anyRound(db, roomId) ==
  IF roomId \notin DOMAIN db.rooms \/ getCurrentRound(db, roomId) = <<>>
  THEN <<>>
  ELSE <<ResultOf(db.rooms[roomId])>>

calculateEstimationResult(db, roomId) ==
  IF roomId \notin DOMAIN db.rooms \/ getCurrentRound(db, roomId) = <<>>
     \/ ~getCurrentRound(db, roomId)[1].isRevealed
  THEN <<>>
  ELSE <<ResultOf(db.rooms[roomId])>>

\* <<>> is null; otherwise the number of submissions of each submitted value
getCardDistribution_nullWhenEmpty(db, roomId) ==
  IF roomId \notin DOMAIN db.rooms \/ getCurrentRound(db, roomId) = <<>>
     \/ ~getCurrentRound(db, roomId)[1].isRevealed
     \/ getCurrentRound(db, roomId)[1].cards = <<>>
  THEN <<>>
  ELSE LET cards == getCurrentRound(db, roomId)[1].cards
       IN <<[v \in { cards[i].v : i \in 1..Len(cards) } |->
               Cardinality({ i \in 1..Len(cards) : cards[i].v = v })]>>

getCardDistribution(db, roomId) ==
  IF roomId \notin DOMAIN db.rooms \/ getCurrentRound(db, roomId) = <<>>
     \/ ~getCurrentRound(db, roomId)[1].isRevealed
  THEN <<>>
  ELSE LET cards == getCurrentRound(db, roomId)[1].cards
       IN <<[v \in { cards[i].v : i \in 1..Len(cards) } |->
               Cardinality({ i \in 1..Len(cards) : cards[i].v = v })]>>
\* Object.keys of the distribution of the card values: the values that are
\* written like an array index in ascending numeric order, then the other
\* values in the order they were first submitted
ObjectKeys(cardValues) ==
  LET unique == uniqueValues(cardValues)
      isIndex(v) == v \in {"1", "2", "3", "5", "8", "13", "21"}
      indices == SelectSeq(unique, isIndex)
      sorted == sortAscending(
                  [i \in 1..Len(indices) |-> parseFloat(indices[i])[1]])
  IN [i \in 1..Len(sorted) |->
        indices[FindIndex(indices,
                          LAMBDA v : parseFloat(v)[1] = sorted[i])]]
     \o SelectSeq(unique, LAMBDA v : ~isIndex(v))

\* the card values of the revealed current round, in Map iteration order
RevealedCardValues(db, roomId) ==
  LET cards == getCurrentRound(db, roomId)[1].cards
  IN [i \in 1..Len(cards) |-> cards[i].v]

\* <<>> is null
getVarianceAnalysis(db, roomId) ==
  IF roomId \notin DOMAIN db.rooms \/ getCurrentRound(db, roomId) = <<>>
     \/ ~getCurrentRound(db, roomId)[1].isRevealed
  THEN <<>>
  ELSE LET cardValues == RevealedCardValues(db, roomId)
           numericCards == NumericCards(cardValues)
           min == Min(numericCards)
           max == Max(numericCards)
           high == (max - min) > 16 \/ (min > 0 /\ max > 5 * min)
       IN IF Len(numericCards) < 2
          THEN <<[hasVariance |-> FALSE, varianceLevel |-> "none",
                  highlightedCards |-> <<>>]>>
          ELSE <<[hasVariance |-> Spread(numericCards),
                  varianceLevel |-> IF ~Spread(numericCards) THEN "none"
                                    ELSE IF high THEN "high" ELSE "moderate",
                  highlightedCards |->
                    IF ~Spread(numericCards) THEN <<>>
                    ELSE SelectSeq(cardValues,
                           LAMBDA v : /\ parseFloat(v) # <<>>
                                      /\ parseFloat(v)[1] \in {min, max})]>>

\* <<>> is null; majorityCard is <<>> for null
getEstimationPatterns_halfIsMajority(db, roomId) ==
  IF getCardDistribution(db, roomId) = <<>>
  THEN <<>>
  ELSE LET cardValues == RevealedCardValues(db, roomId)
           distribution == getCardDistribution(db, roomId)[1]
           totalCards == Len(cardValues)
           keys == ObjectKeys(cardValues)
           consensus == Len(keys) = 1
           majority == SelectSeq(keys,
                         LAMBDA c : 2 * distribution[c] >= totalCards)
           majorityCard == IF ~consensus /\ majority # <<>>
                           THEN <<majority[1]>> ELSE <<>>
           outliers == IF totalCards >= 3 /\ ~consensus
                       THEN SelectSeq(keys, LAMBDA c : distribution[c] = 1)
                       ELSE <<>>
       IN <<[consensus |-> consensus,
             majorityCard |-> majorityCard,
             outliers |-> outliers,
             colorCoding |->
               [c \in Range(keys) |->
                  IF consensus THEN "consensus"
                  ELSE IF <<c>> = majorityCard THEN "majority"
                  ELSE IF c \in Range(outliers) THEN "outlier"
                  ELSE "normal"]]>>

getEstimationPatterns(db, roomId) ==
  IF roomId \notin DOMAIN db.rooms \/ getCurrentRound(db, roomId) = <<>>
     \/ ~getCurrentRound(db, roomId)[1].isRevealed
     \/ getCardDistribution(db, roomId) = <<>>
  THEN <<>>
  ELSE LET cardValues == RevealedCardValues(db, roomId)
           distribution == getCardDistribution(db, roomId)[1]
           totalCards == Len(cardValues)
           keys == ObjectKeys(cardValues)
           consensus == Len(keys) = 1
           majority == SelectSeq(keys,
                         LAMBDA c : 2 * distribution[c] > totalCards)
           majorityCard == IF ~consensus /\ majority # <<>>
                           THEN <<majority[1]>> ELSE <<>>
           outliers == IF totalCards >= 3 /\ ~consensus
                       THEN SelectSeq(keys, LAMBDA c : distribution[c] = 1)
                       ELSE <<>>
       IN <<[consensus |-> consensus,
             majorityCard |-> majorityCard,
             outliers |-> outliers,
             colorCoding |->
               [c \in Range(keys) |->
                  IF consensus THEN "consensus"
                  ELSE IF <<c>> = majorityCard THEN "majority"
                  ELSE IF c \in Range(outliers) THEN "outlier"
                  ELSE "normal"]]>>


\* ----------------------------------------------------- EstimationServiceImpl
newRound == [cards |-> <<>>, isRevealed |-> FALSE]

startRound_keepCards(db, roomId) ==
  IF roomId = <<>> THEN [db |-> db, err |-> "Room ID is required"]
  ELSE IF roomId \notin DOMAIN db.rooms THEN [db |-> db, err |-> "Room not found"]
  ELSE IF Len(db.rooms[roomId].players) = 0
  THEN [db |-> db, err |-> "Cannot start round with no players"]
  ELSE LET old == getCurrentRound(db, roomId)
           r == setCurrentRound(db, roomId,
                  IF old = <<>> THEN <<newRound>>
                  ELSE <<[old[1] EXCEPT !.isRevealed = FALSE]>>)
       IN IF r.ok THEN [db |-> r.db, err |-> ""]
          ELSE [db |-> db, err |-> "Failed to start estimation round"]

startRound_connectedOnly(db, roomId) ==
  IF roomId = <<>> THEN [db |-> db, err |-> "Room ID is required"]
  ELSE IF roomId \notin DOMAIN db.rooms THEN [db |-> db, err |-> "Room not found"]
  ELSE IF \A i \in 1..Len(db.rooms[roomId].players) :
            ~db.rooms[roomId].players[i].isConnected
  THEN [db |-> db, err |-> "Cannot start round with no players"]
  ELSE LET r == setCurrentRound(db, roomId, <<newRound>>)
       IN IF r.ok THEN [db |-> r.db, err |-> ""]
          ELSE [db |-> db, err |-> "Failed to start estimation round"]

startRound(db, roomId) ==
  IF roomId = <<>> THEN [db |-> db, err |-> "Room ID is required"]
  ELSE IF roomId \notin DOMAIN db.rooms THEN [db |-> db, err |-> "Room not found"]
  ELSE IF Len(db.rooms[roomId].players) = 0
  THEN [db |-> db, err |-> "Cannot start round with no players"]
  ELSE LET r == setCurrentRound(db, roomId, <<newRound>>)
       IN IF r.ok THEN [db |-> r.db, err |-> ""]
          ELSE [db |-> db, err |-> "Failed to start estimation round"]

submitCard_writeFirst(db, roomId, playerId, cardValue) ==
  IF roomId = <<>> \/ playerId = 0
  THEN [db |-> db, err |-> "Room ID, player ID, and card value are required"]
  ELSE IF ~includes(PLANNING_POKER_DECK, cardValue)
  THEN [db |-> db, err |-> "Invalid card value. Must be one of: ..."]
  ELSE IF roomId \notin DOMAIN db.rooms THEN [db |-> db, err |-> "Room not found"]
  ELSE IF FindIndex(db.rooms[roomId].players, LAMBDA p : p.id = playerId) = 0
  THEN [db |-> db, err |-> "Player not found in room"]
  ELSE IF getCurrentRound(db, roomId) = <<>>
  THEN [db |-> db, err |-> "No active estimation round"]
  ELSE LET r == addCardToCurrentRound(db, roomId, playerId, cardValue)
       IN IF getCurrentRound(db, roomId)[1].isRevealed
          THEN [db |-> r.db,
                err |-> "Cannot submit card after cards have been revealed"]
          ELSE IF r.ok THEN [db |-> r.db, err |-> ""]
          ELSE [db |-> db, err |-> "Failed to submit card"]

submitCard(db, roomId, playerId, cardValue) ==
  IF roomId = <<>> \/ playerId = 0
  THEN [db |-> db, err |-> "Room ID, player ID, and card value are required"]
  ELSE IF ~includes(PLANNING_POKER_DECK, cardValue)
  THEN [db |-> db, err |-> "Invalid card value. Must be one of: ..."]
  ELSE IF roomId \notin DOMAIN db.rooms THEN [db |-> db, err |-> "Room not found"]
  ELSE IF FindIndex(db.rooms[roomId].players, LAMBDA p : p.id = playerId) = 0
  THEN [db |-> db, err |-> "Player not found in room"]
  ELSE IF getCurrentRound(db, roomId) = <<>>
  THEN [db |-> db, err |-> "No active estimation round"]
  ELSE IF getCurrentRound(db, roomId)[1].isRevealed
  THEN [db |-> db, err |-> "Cannot submit card after cards have been revealed"]
  ELSE LET r == addCardToCurrentRound(db, roomId, playerId, cardValue)
       IN IF r.ok THEN [db |-> r.db, err |-> ""]
          ELSE [db |-> db, err |-> "Failed to submit card"]

revealCards(db, roomId) ==
  IF roomId = <<>> THEN [db |-> db, err |-> "Room ID is required", result |-> <<>>]
  ELSE IF roomId \notin DOMAIN db.rooms
  THEN [db |-> db, err |-> "Room not found", result |-> <<>>]
  ELSE IF getCurrentRound(db, roomId) = <<>>
  THEN [db |-> db, err |-> "No active estimation round", result |-> <<>>]
  ELSE IF getCurrentRound(db, roomId)[1].isRevealed
  THEN [db |-> db, err |-> "Cards have already been revealed", result |-> <<>>]
  ELSE LET r == revealCardsInCurrentRound(db, roomId)
       IN IF r.ok
          THEN [db |-> r.db, err |-> "",
                result |-> calculateEstimationResult(r.db, roomId)]
          ELSE [db |-> db, err |-> "Failed to reveal cards", result |-> <<>>]

getRoundState(db, roomId) ==
  IF roomId = <<>> THEN <<>> ELSE getCurrentRound(db, roomId)

areAllCardsSubmitted_allPlayers(db, roomId) ==
  IF roomId = <<>> THEN FALSE
  ELSE IF roomId \notin DOMAIN db.rooms THEN FALSE
  ELSE IF getCurrentRound(db, roomId) = <<>> THEN FALSE
  ELSE LET players == db.rooms[roomId].players
           cards == getCurrentRound(db, roomId)[1].cards
       IN IF Len(players) = 0 THEN FALSE
          ELSE \A i \in 1..Len(players) : MapHas(cards, players[i].id)

areAllCardsSubmitted(db, roomId) ==
  IF roomId = <<>> THEN FALSE
  ELSE IF roomId \notin DOMAIN db.rooms THEN FALSE
  ELSE IF getCurrentRound(db, roomId) = <<>> THEN FALSE
  ELSE LET connectedPlayers ==
             SelectSeq(db.rooms[roomId].players, LAMBDA p : p.isConnected)
           cards == getCurrentRound(db, roomId)[1].cards
       IN IF Len(connectedPlayers) = 0 THEN FALSE
          ELSE \A i \in 1..Len(connectedPlayers) :
                  MapHas(cards, connectedPlayers[i].id)

getPlayerSelectionStatus_connectedOnly(db, roomId) ==
  IF roomId = <<>> \/ roomId \notin DOMAIN db.rooms THEN <<>>
  ELSE LET ps == SelectSeq(db.rooms[roomId].players, LAMBDA p : p.isConnected)
           currentRound == getCurrentRound(db, roomId)
       IN [i \in 1..Len(ps) |->
             [playerId |-> ps[i].id, playerName |-> ps[i].name,
              hasSelected |-> IF currentRound # <<>>
                              THEN MapHas(currentRound[1].cards, ps[i].id)
                              ELSE FALSE,
              isConnected |-> ps[i].isConnected]]

getPlayerSelectionStatus(db, roomId) ==
  IF roomId = <<>> \/ roomId \notin DOMAIN db.rooms THEN <<>>
  ELSE LET ps == db.rooms[roomId].players
           currentRound == getCurrentRound(db, roomId)
       IN [i \in 1..Len(ps) |->
             [playerId |-> ps[i].id, playerName |-> ps[i].name,
              hasSelected |-> IF currentRound # <<>>
                              THEN MapHas(currentRound[1].cards, ps[i].id)
                              ELSE FALSE,
              isConnected |-> ps[i].isConnected]]

\* --------------------------------------------------------- WebSocketService
\* st is [db, playerSocketMap, socketPlayerMap, socketRooms]; socketRooms[s]
\* is the set of socket.io rooms socket s has joined.  A handler returns the
\* new st, the emissions out (each [to, ev, data], to being the set of sockets
\* that receive it), the room it acted on (<<>> if none) and the player id it
\* acted for (0 if none).
inRoom(st, roomId) == { s \in Sockets : roomId \in st.socketRooms[s] }

\* socket.emit
emit_all(s, ev, data) == [to |-> Sockets, ev |-> ev, data |-> data]

emit(s, ev, data) == [to |-> {s}, ev |-> ev, data |-> data]
\* io.to(roomId).emit
broadcastToRoom(st, roomId, ev, data) ==
  [to |-> inRoom(st, roomId), ev |-> ev, data |-> data]
\* socket.to(roomId).emit
socketTo(st, s, roomId, ev, data) ==
  [to |-> inRoom(st, roomId) \ {s}, ev |-> ev, data |-> data]

broadcastPlayerSelectionStatus(st, roomId) ==
  broadcastToRoom(st, roomId, "player-selection-status",
                  [players |-> getPlayerSelectionStatus(st.db, roomId)])

\* the payload as socket.io encodes it (JSON.stringify): the cards Map of the
\* round has no enumerable own property and is written as the empty object
roundToJSON_withCards(round) ==
  [cards |-> round.cards, isRevealed |-> round.isRevealed]

roundToJSON(round) == [cards |-> <<>>, isRevealed |-> round.isRevealed]

roomToJSON(roomId, room) ==
  [id |-> roomId, players |-> room.players,
   currentRound |-> IF room.currentRound = <<>> THEN <<>>
                    ELSE <<roundToJSON(room.currentRound[1])>>]

Failed_toRoom(st, s, msg, roomOpt, pid) ==
  [st |-> st,
   out |-> <<IF roomOpt = <<>> THEN emit(s, "error", [message |-> msg])
             ELSE broadcastToRoom(st, roomOpt[1], "error", [message |-> msg])>>,
   room |-> roomOpt, pid |-> pid, created |-> FALSE, ok |-> FALSE]

Failed(st, s, msg, roomOpt, pid) ==
  [st |-> st, out |-> <<emit(s, "error", [message |-> msg])>>,
   room |-> roomOpt, pid |-> pid, created |-> FALSE, ok |-> FALSE]

Silent(st, roomOpt, pid) ==
  [st |-> st, out |-> <<>>, room |-> roomOpt, pid |-> pid, created |-> FALSE,
   ok |-> FALSE]

handleJoinRoom(st, s, roomId, playerName, newId) ==
  LET sanitizedRoomId == trim(roomId)
      sanitizedPlayerName == trim(playerName)
      cr == IF sanitizedRoomId \in DOMAIN st.db.rooms
            THEN [db |-> st.db, err |-> ""]
            ELSE createRoom(st.db, sanitizedRoomId)
      result == joinRoom(cr.db, sanitizedRoomId, sanitizedPlayerName, newId)
      player == result.player[1]
      st1 == [st EXCEPT !.db = result.db,
                        !.playerSocketMap = Put(@, player.id, s),
                        !.socketPlayerMap = Put(@, s, player.id),
                        !.socketRooms[s] = @ \cup {sanitizedRoomId}]
      room == result.room[1]
      estimationResult == calculateEstimationResult(st1.db, sanitizedRoomId)
  IN IF roomId = <<>> \/ trim(roomId) = <<>>
     THEN Failed(st, s, "Room ID is required and must be a valid string", <<>>, 0)
     ELSE IF playerName = <<>> \/ trim(playerName) = <<>>
     THEN Failed(st, s, "Player name is required and must be a valid string",
                 <<>>, 0)
     ELSE IF Len(sanitizedPlayerName) > MaxNameLen
     THEN Failed(st, s, "Player name must be 30 characters or less", <<>>, 0)
     ELSE IF Len(sanitizedPlayerName) < 1
     THEN Failed(st, s, "Player name cannot be empty", <<>>, 0)
     ELSE IF cr.err # "" THEN Failed(st, s, cr.err, <<>>, 0)
     ELSE IF ~result.success
     THEN Failed([st EXCEPT !.db = cr.db], s, result.error,
                 <<sanitizedRoomId>>, 0)
     ELSE [st |-> st1,
           out |-> <<emit(s, "room-joined",
                          [room |-> roomToJSON(sanitizedRoomId, room),
                           currentPlayer |-> player])>>
                   \o (IF room.currentRound # <<>>
                          /\ room.currentRound[1].isRevealed
                          /\ estimationResult # <<>>
                       THEN <<emit(s, "cards-revealed",
                                   [result |-> estimationResult[1]])>>
                       ELSE <<>>)
                   \o <<socketTo(st1, s, sanitizedRoomId, "player-joined",
                                 [player |-> player]),
                        broadcastPlayerSelectionStatus(st1, sanitizedRoomId)>>,
           room |-> <<sanitizedRoomId>>, pid |-> player.id,
           created |-> result.created, ok |-> TRUE]

\* the search of handleStartRound for a socket without a mapping: the first
\* room, in iteration order, whose only player is disconnected
LoneDisconnected(db) ==
  FindIndex(getAllRooms(db),
            LAMBDA rid : Len(db.rooms[rid].players) = 1
                         /\ ~db.rooms[rid].players[1].isConnected)

handleStartRound(st, s) ==
  LET k == LoneDisconnected(st.db)
      guessRoom == getAllRooms(st.db)[k]
      guessId == st.db.rooms[guessRoom].players[1].id
      st1 == IF s \in DOMAIN st.socketPlayerMap \/ k = 0 THEN st
             ELSE [st EXCEPT !.playerSocketMap = Put(@, guessId, s),
                             !.socketPlayerMap = Put(@, s, guessId),
                             !.db = updateConnectionStatus(@, guessId, TRUE).db,
                             !.socketRooms[s] = @ \cup {guessRoom}]
      playerId == IF s \in DOMAIN st1.socketPlayerMap
                  THEN st1.socketPlayerMap[s] ELSE 0
      roomOpt == getPlayerRoom(st1.db, playerId)
      sr == startRound(st1.db, roomOpt[1])
      st2 == [st1 EXCEPT !.db = sr.db]
  IN IF playerId = 0 THEN Failed(st1, s, "Player not found", <<>>, 0)
     ELSE IF roomOpt = <<>>
     THEN Failed(st1, s, "Player not in any room", <<>>, playerId)
     ELSE IF sr.err # "" THEN Failed(st2, s, sr.err, roomOpt, playerId)
     ELSE [st |-> st2,
           out |-> <<broadcastToRoom(st2, roomOpt[1], "round-started", <<>>),
                     broadcastPlayerSelectionStatus(st2, roomOpt[1])>>,
           room |-> roomOpt, pid |-> playerId, created |-> FALSE,
           ok |-> TRUE]

handleSelectCard(st, s, cardValue) ==
  LET playerId == IF s \in DOMAIN st.socketPlayerMap
                  THEN st.socketPlayerMap[s] ELSE 0
      roomOpt == getPlayerRoom(st.db, playerId)
      roomId == roomOpt[1]
      sc == submitCard(st.db, roomId, playerId, cardValue)
      st1 == [st EXCEPT !.db = sc.db]
      room == st1.db.rooms[roomId]
      \* recalculation when the round is already revealed; an error thrown by
      \* revealCards is caught and logged
      rv == revealCards(st1.db, roomId)
      rerun == room.currentRound # <<>> /\ room.currentRound[1].isRevealed
      st2 == IF rerun /\ rv.err = "" THEN [st1 EXCEPT !.db = rv.db] ELSE st1
  IN IF playerId = 0
     THEN Failed(st, s,
            "Player session not found. Please refresh and rejoin the room.",
            <<>>, 0)
     ELSE IF roomOpt = <<>>
     THEN Failed(st, s,
            "You are not currently in a room. Please join a room first.",
            <<>>, playerId)
     ELSE IF cardValue = ""
     THEN Failed(st, s, "Card value is required and must be a valid string",
                 roomOpt, playerId)
     ELSE IF ~includes(validCards, cardValue)
     THEN Failed(st, s,
            "Invalid card value. Please select a valid card from the deck.",
            roomOpt, playerId)
     ELSE IF sc.err # "" THEN Failed(st1, s, sc.err, roomOpt, playerId)
     ELSE [st |-> st2,
           out |-> <<broadcastToRoom(st1, roomId, "card-selected",
                                     [playerId |-> playerId,
                                      hasSelected |-> TRUE]),
                     broadcastPlayerSelectionStatus(st1, roomId)>>
                   \o (IF areAllCardsSubmitted(st1.db, roomId)
                       THEN <<broadcastToRoom(st1, roomId,
                                              "all-cards-submitted", <<>>)>>
                       ELSE <<>>)
                   \o (IF rerun /\ rv.err = "" /\ rv.result # <<>>
                       THEN <<broadcastToRoom(st1, roomId, "cards-revealed",
                                              [result |-> rv.result[1]])>>
                       ELSE <<>>),
           room |-> roomOpt, pid |-> playerId, created |-> FALSE,
           ok |-> TRUE]

handleRevealCards(st, s) ==
  LET playerId == IF s \in DOMAIN st.socketPlayerMap
                  THEN st.socketPlayerMap[s] ELSE 0
      roomOpt == getPlayerRoom(st.db, playerId)
      rv == revealCards(st.db, roomOpt[1])
      st1 == [st EXCEPT !.db = rv.db]
  IN IF playerId = 0 THEN Failed(st, s, "Player not found", <<>>, 0)
     ELSE IF roomOpt = <<>>
     THEN Failed(st, s, "Player not in any room", <<>>, playerId)
     ELSE IF rv.err # "" THEN Failed(st1, s, rv.err, roomOpt, playerId)
     ELSE IF rv.result = <<>>
     THEN Failed(st1, s, "Failed to reveal cards", roomOpt, playerId)
     ELSE [st |-> st1,
           out |-> <<broadcastToRoom(st1, roomOpt[1], "cards-revealed",
                                     [result |-> rv.result[1]])>>,
           room |-> roomOpt, pid |-> playerId, created |-> FALSE,
           ok |-> TRUE]

handleLeaveRoom(st, s) ==
  LET playerId == IF s \in DOMAIN st.socketPlayerMap
                  THEN st.socketPlayerMap[s] ELSE 0
      roomOpt == getPlayerRoom(st.db, playerId)
      leaveResult == leaveRoom(st.db, playerId)
      st1 == [st EXCEPT !.db = leaveResult.db,
                        !.playerSocketMap = Without(@, playerId),
                        !.socketPlayerMap = Without(@, s)]
  IN IF playerId = 0 THEN Silent(st, <<>>, 0)
     ELSE IF roomOpt = <<>> THEN Silent(st, <<>>, playerId)
     ELSE IF ~leaveResult.success THEN Silent(st, roomOpt, playerId)
     ELSE [st |-> st1,
           out |-> <<socketTo(st1, s, roomOpt[1], "player-left",
                              [playerId |-> playerId]),
                     broadcastPlayerSelectionStatus(st1, roomOpt[1])>>,
           room |-> roomOpt, pid |-> playerId, created |-> FALSE,
           ok |-> TRUE]

handleRemovePlayer_anyTarget(st, s, playerId) ==
  LET requestingPlayerId == IF s \in DOMAIN st.socketPlayerMap
                            THEN st.socketPlayerMap[s] ELSE 0
      roomOpt == getPlayerRoom(st.db, requestingPlayerId)
      targetPlayerRoom == getPlayerRoom(st.db, playerId)
      targetPlayer == getPlayerInRoom(st.db, playerId, roomOpt[1])
      removeResult == leaveRoom(st.db, playerId)
      targetSocketId == IF playerId \in DOMAIN st.playerSocketMap
                        THEN <<st.playerSocketMap[playerId]>> ELSE <<>>
      st1 == [st EXCEPT !.db = removeResult.db,
                        !.playerSocketMap = Without(@, playerId),
                        !.socketPlayerMap =
                           IF targetSocketId # <<>>
                           THEN Without(@, targetSocketId[1]) ELSE @]
  IN IF requestingPlayerId = 0 THEN Failed(st, s, "Player not found", <<>>, 0)
     ELSE IF playerId = 0
     THEN Failed(st, s, "Player ID is required", <<>>, requestingPlayerId)
     ELSE IF roomOpt = <<>>
     THEN Failed(st, s, "You are not in any room", <<>>, requestingPlayerId)
     ELSE IF targetPlayerRoom # roomOpt
     THEN Failed(st, s, "Player not found in your room", roomOpt,
                 requestingPlayerId)
     ELSE IF targetPlayer = <<>>
     THEN Failed(st, s, "Player not found in room", roomOpt, requestingPlayerId)
     ELSE IF ~removeResult.success
     THEN Failed(st, s, "Failed to remove player from room", roomOpt,
                 requestingPlayerId)
     ELSE [st |-> st1,
           out |-> <<broadcastToRoom(st1, roomOpt[1], "player-removed",
                                     [playerId |-> playerId,
                                      playerName |-> targetPlayer[1].name,
                                      removedBy |-> requestingPlayerId]),
                     broadcastPlayerSelectionStatus(st1, roomOpt[1])>>,
           room |-> roomOpt, pid |-> requestingPlayerId, created |-> FALSE,
           ok |-> TRUE]

handleRemovePlayer(st, s, playerId) ==
  LET requestingPlayerId == IF s \in DOMAIN st.socketPlayerMap
                            THEN st.socketPlayerMap[s] ELSE 0
      roomOpt == getPlayerRoom(st.db, requestingPlayerId)
      targetPlayerRoom == getPlayerRoom(st.db, playerId)
      targetPlayer == getPlayerInRoom(st.db, playerId, roomOpt[1])
      removeResult == leaveRoom(st.db, playerId)
      targetSocketId == IF playerId \in DOMAIN st.playerSocketMap
                        THEN <<st.playerSocketMap[playerId]>> ELSE <<>>
      st1 == [st EXCEPT !.db = removeResult.db,
                        !.playerSocketMap = Without(@, playerId),
                        !.socketPlayerMap =
                           IF targetSocketId # <<>>
                           THEN Without(@, targetSocketId[1]) ELSE @]
  IN IF requestingPlayerId = 0 THEN Failed(st, s, "Player not found", <<>>, 0)
     ELSE IF playerId = 0
     THEN Failed(st, s, "Player ID is required", <<>>, requestingPlayerId)
     ELSE IF roomOpt = <<>>
     THEN Failed(st, s, "You are not in any room", <<>>, requestingPlayerId)
     ELSE IF targetPlayerRoom # roomOpt
     THEN Failed(st, s, "Player not found in your room", roomOpt,
                 requestingPlayerId)
     ELSE IF targetPlayer = <<>>
     THEN Failed(st, s, "Player not found in room", roomOpt, requestingPlayerId)
     ELSE IF targetPlayer[1].isConnected
     THEN Failed(st, s, "Cannot remove connected players", roomOpt,
                 requestingPlayerId)
     ELSE IF ~removeResult.success
     THEN Failed(st, s, "Failed to remove player from room", roomOpt,
                 requestingPlayerId)
     ELSE [st |-> st1,
           out |-> <<broadcastToRoom(st1, roomOpt[1], "player-removed",
                                     [playerId |-> playerId,
                                      playerName |-> targetPlayer[1].name,
                                      removedBy |-> requestingPlayerId]),
                     broadcastPlayerSelectionStatus(st1, roomOpt[1])>>,
           room |-> roomOpt, pid |-> requestingPlayerId, created |-> FALSE,
           ok |-> TRUE]

\* socket.io has taken the socket out of all its rooms before the handler runs
handleDisconnect(st, s) ==
  LET playerId == IF s \in DOMAIN st.socketPlayerMap
                  THEN st.socketPlayerMap[s] ELSE 0
      gone == [st EXCEPT !.socketRooms[s] = {}]
      roomOpt == getPlayerRoom(st.db, playerId)
      updateResult == updateConnectionStatus(st.db, playerId, FALSE)
      st1 == [gone EXCEPT !.db = updateResult.db,
                          !.playerSocketMap = Without(@, playerId),
                          !.socketPlayerMap = Without(@, s)]
  IN IF playerId = 0 THEN Silent(gone, <<>>, 0)
     ELSE [st |-> st1,
           out |-> IF updateResult.success /\ roomOpt # <<>>
                   THEN <<socketTo(st1, s, roomOpt[1], "player-left",
                                   [playerId |-> playerId]),
                          broadcastPlayerSelectionStatus(st1, roomOpt[1])>>
                   ELSE <<>>,
           room |-> roomOpt, pid |-> playerId, created |-> FALSE,
           ok |-> TRUE]

\* ------------------------------------------------------------------ state
VARIABLES
  db,               \* InMemoryDatabase: rooms, roomOrder, playerRoomMap
  playerSocketMap,  \* WebSocketService.playerSocketMap
  socketPlayerMap,  \* WebSocketService.socketPlayerMap
  socketRooms,      \* socket.io room membership of every socket
  connected,        \* the live sockets
  last,             \* the last handler run that succeeded, and the round before it
  db2,              \* the store of a second run that differs in card values
  pendingJoin,      \* per socket: the join handler suspended at its await
  client,           \* one browser client (useWebSocket): its socket and roomStateRef
  view              \* per socket: the room state of its browser (useRoomState)

vars == <<db, playerSocketMap, socketPlayerMap, socketRooms, connected, last,
          db2, pendingJoin, client, view>>

State == [db |-> db, playerSocketMap |-> playerSocketMap,
          socketPlayerMap |-> socketPlayerMap, socketRooms |-> socketRooms]

\* the second run: same gateway state, its own store
State2 == [State EXCEPT !.db = db2]

PlayerIds == 1..MaxPlayers

IdsInUse(d) ==
  (DOMAIN d.playerRoomMap)
  \cup UNION { { d.rooms[r].players[i].id : i \in 1..Len(d.rooms[r].players) }
               : r \in DOMAIN d.rooms }
  \cup UNION { IF d.rooms[r].currentRound = <<>> THEN {}
               ELSE MapKeys(d.rooms[r].currentRound[1].cards)
               : r \in DOMAIN d.rooms }

\* uuidv4(): an id that occurs nowhere in the state (0 when the ids of the
\* model are used up)
FreshIds ==
  { i \in PlayerIds : i \notin IdsInUse(db) /\ i \notin DOMAIN playerSocketMap
                      /\ i \notin Range2(socketPlayerMap) }
uuidv4 ==
  IF FreshIds = {} THEN 0 ELSE CHOOSE i \in FreshIds : \A j \in FreshIds : i <= j

NoLast == [act |-> "init", created |-> FALSE, preRound |-> "none",
           preVoted |-> FALSE]

\* the client before it connects: no socket, empty roomStateRef; pid is the
\* currentPlayer.id of the last room-joined, armed the rejoin timer, losses the
\* number of connections lost so far
NoClient == [socket |-> "none", roomId |-> <<>>, playerName |-> <<>>,
             hasJoined |-> FALSE, armed |-> FALSE, pid |-> 0, losses |-> 0]

\* useRoomState before a room is joined: no room, WAITING, no result
NoView == [room |-> <<>>, roundState |-> "WAITING", estimationResult |-> <<>>]

Init ==
  /\ db = EmptyDb
  /\ playerSocketMap = EmptyMap
  /\ socketPlayerMap = EmptyMap
  /\ socketRooms = [s \in Sockets |-> {}]
  /\ connected = {}
  /\ last = NoLast
  /\ db2 = EmptyDb
  /\ pendingJoin = [s \in Sockets |-> <<>>]
  /\ client = NoClient
  /\ view = [s \in Sockets |-> NoView]

\* the round of room roomOpt: "none", "collecting" or "revealed"
RoundState(d, roomOpt) ==
  IF roomOpt = <<>> \/ getCurrentRound(d, roomOpt[1]) = <<>> THEN "none"
  ELSE IF getCurrentRound(d, roomOpt[1])[1].isRevealed THEN "revealed"
  ELSE "collecting"

\* whether the round of room roomOpt records a submission of player pid
Voted(d, roomOpt, pid) ==
  /\ RoundState(d, roomOpt) # "none"
  /\ MapHas(getCurrentRound(d, roomOpt[1])[1].cards, pid)

\* what last records of a handler run res on the current state; who is the
\* player whose submission the run is about
Record(res, act, who) ==
  IF res.ok
  THEN [act |-> act, created |-> res.created,
        preRound |-> RoundState(db, res.room),
        preVoted |-> Voted(db, res.room, who)]
  ELSE last

CommitState(res, act, who) ==
  /\ db' = res.st.db
  /\ playerSocketMap' = res.st.playerSocketMap
  /\ socketPlayerMap' = res.st.socketPlayerMap
  /\ socketRooms' = res.st.socketRooms
  /\ last' = Record(res, act, who)

\* a handler that runs to its end within one step
Commit(res, act, who) ==
  CommitState(res, act, who) /\ UNCHANGED <<pendingJoin, client, view>>

\* the second run takes the same step on its own store when twin is set
Commit2(twin, res2) == IF twin THEN db2' = res2.st.db ELSE UNCHANGED db2

\* a client connects: a new socket, known to no map
Connect(s) ==
  /\ s \notin connected
  /\ s \notin DOMAIN socketPlayerMap
  /\ s \notin Range2(playerSocketMap)
  /\ connected' = connected \cup {s}
  /\ last' = [NoLast EXCEPT !.act = "connect"]
  /\ UNCHANGED <<db, playerSocketMap, socketPlayerMap, socketRooms, db2,
                 pendingJoin, client, view>>

JoinRoom(s, roomId, playerName, twin) ==
  /\ s \in connected
  /\ LET res == handleJoinRoom(State, s, roomId, playerName, uuidv4)
     IN /\ res.created => uuidv4 # 0
        /\ Commit(res, "join-room", res.pid)
  /\ Commit2(twin, handleJoinRoom(State2, s, roomId, playerName, uuidv4))
  /\ UNCHANGED connected

StartRound(s, twin) ==
  /\ s \in connected
  /\ LET res == handleStartRound(State, s) IN Commit(res, "start-round", res.pid)
  /\ Commit2(twin, handleStartRound(State2, s))
  /\ UNCHANGED connected

\* the second run submits cardValue2 where the first submits cardValue
SelectCard(s, cardValue, cardValue2, twin) ==
  /\ s \in connected
  /\ LET res == handleSelectCard(State, s, cardValue)
     IN Commit(res, "select-card", res.pid)
  /\ Commit2(twin, handleSelectCard(State2, s, cardValue2))
  /\ UNCHANGED connected

RevealCards(s, twin) ==
  /\ s \in connected
  /\ LET res == handleRevealCards(State, s)
     IN Commit(res, "reveal-cards", res.pid)
  /\ Commit2(twin, handleRevealCards(State2, s))
  /\ UNCHANGED connected

LeaveRoom(s, twin) ==
  /\ s \in connected
  /\ LET res == handleLeaveRoom(State, s) IN Commit(res, "leave-room", res.pid)
  /\ Commit2(twin, handleLeaveRoom(State2, s))
  /\ UNCHANGED connected

RemovePlayer(s, playerId, twin) ==
  /\ s \in connected
  /\ Commit(handleRemovePlayer(State, s, playerId), "remove-player", playerId)
  /\ Commit2(twin, handleRemovePlayer(State2, s, playerId))
  /\ UNCHANGED connected

Disconnect(s, twin) ==
  /\ s \in connected
  /\ LET res == handleDisconnect(State, s) IN Commit(res, "disconnect", res.pid)
  /\ Commit2(twin, handleDisconnect(State2, s))
  /\ connected' = connected \ {s}

\* the cards both the gateway and the estimation service accept
Accepted(Cs) ==
  { c \in Cs : includes(validCards, c) /\ includes(PLANNING_POKER_DECK, c) }

\* one room, all name and card inputs
Next ==
  \/ \E s \in Sockets : Connect(s)
  \/ \E s \in Sockets, r \in RoomInputs, n \in NameInputs :
        JoinRoom(s, r, n, FALSE)
  \/ \E s \in Sockets : StartRound(s, FALSE)
  \/ \E s \in Sockets, c \in CardInputs : SelectCard(s, c, c, FALSE)
  \/ \E s \in Sockets : RevealCards(s, FALSE)
  \/ \E s \in Sockets : LeaveRoom(s, FALSE)
  \/ \E s \in Sockets, t \in PlayerIds : RemovePlayer(s, t, FALSE)
  \/ \E s \in Sockets : Disconnect(s, FALSE)

Spec == Init /\ [][Next]_vars

\* two rooms, fewer names and cards
NextRooms ==
  \/ \E s \in Sockets : Connect(s)
  \/ \E s \in Sockets, r \in RoomInputs2, n \in NameInputs2 :
        JoinRoom(s, r, n, FALSE)
  \/ \E s \in Sockets : StartRound(s, FALSE)
  \/ \E s \in Sockets, c \in CardInputs2 : SelectCard(s, c, c, FALSE)
  \/ \E s \in Sockets : RevealCards(s, FALSE)
  \/ \E s \in Sockets : LeaveRoom(s, FALSE)
  \/ \E s \in Sockets, t \in PlayerIds : RemovePlayer(s, t, FALSE)
  \/ \E s \in Sockets : Disconnect(s, FALSE)

SpecRooms == Init /\ [][NextRooms]_vars

\* one room, two runs that take the same steps and differ in the accepted
\* card values they submit
NextTwin ==
  \/ \E s \in Sockets : Connect(s)
  \/ \E s \in Sockets, r \in RoomInputs, n \in NameInputs :
        JoinRoom(s, r, n, TRUE)
  \/ \E s \in Sockets : StartRound(s, TRUE)
  \/ \E s \in Sockets, c \in CardInputs, c2 \in CardInputs :
        /\ c2 = c \/ {c, c2} \subseteq Accepted(CardInputs)
        /\ SelectCard(s, c, c2, TRUE)
  \/ \E s \in Sockets : RevealCards(s, TRUE)
  \/ \E s \in Sockets : LeaveRoom(s, TRUE)
  \/ \E s \in Sockets, t \in PlayerIds : RemovePlayer(s, t, TRUE)
  \/ \E s \in Sockets : Disconnect(s, TRUE)

SpecTwin == Init /\ [][NextTwin]_vars

\* ----------------------------------------------- the connection-status route
\* the gateway's join-room, start-round, select-card and disconnect next to
\* PUT /api/players/:playerId/connection with a boolean isConnected
PutConnection(playerId, isConnected) ==
  /\ db' = updateConnectionStatus(db, playerId, isConnected).db
  /\ UNCHANGED <<playerSocketMap, socketPlayerMap, socketRooms, connected,
                 last, db2, pendingJoin, client, view>>

StatusRooms == { <<"A">> }
StatusNames == { <<"a">>, <<"b">> }

NextStatus ==
  \/ \E s \in Sockets : Connect(s)
  \/ \E s \in Sockets, r \in StatusRooms, n \in StatusNames :
        JoinRoom(s, r, n, FALSE)
  \/ \E s \in Sockets : StartRound(s, FALSE)
  \/ \E s \in Sockets, c \in CardInputs2 : SelectCard(s, c, c, FALSE)
  \/ \E s \in Sockets : Disconnect(s, FALSE)
  \/ \E playerId \in PlayerIds, isConnected \in BOOLEAN :
        PutConnection(playerId, isConnected)

SpecStatus == Init /\ [][NextStatus]_vars

\* ------------------------------------------------------------ the join route
\* the gateway's join-room and disconnect next to POST /api/rooms/:roomId/join
\* with a string playerName that is not empty
PostJoin(roomId, playerName) ==
  /\ playerName # <<>>
  /\ LET result == joinRoom(db, roomId, playerName, uuidv4)
     IN /\ result.created => uuidv4 # 0
        /\ db' = result.db
  /\ UNCHANGED <<playerSocketMap, socketPlayerMap, socketRooms, connected,
                 last, db2, pendingJoin, client, view>>

NextJoin ==
  \/ \E s \in Sockets : Connect(s)
  \/ \E s \in Sockets, r \in RoomInputs, n \in NameInputs :
        JoinRoom(s, r, n, FALSE)
  \/ \E s \in Sockets : Disconnect(s, FALSE)
  \/ \E r \in StatusRooms, n \in NameInputs : PostJoin(r, n)

SpecJoin == Init /\ [][NextJoin]_vars

\* --------------------------------------- the join handler and its await
\* handleJoinRoom up to "await socket.join(sanitizedRoomId)": the store and
\* the maps are written and the socket is in the room; result.room and
\* result.player wait in the suspended handler.  A join that fails returns
\* before the await.
JoinRoomBegin(s, roomId, playerName) ==
  /\ s \in connected
  /\ pendingJoin[s] = <<>>
  /\ LET res == handleJoinRoom(State, s, roomId, playerName, uuidv4)
     IN /\ res.created => uuidv4 # 0
        /\ CommitState(res, "join-room", res.pid)
        /\ pendingJoin' =
             IF res.ok
             THEN [pendingJoin EXCEPT ![s] =
                     <<[roomId |-> res.room[1], room |-> res.out[1].data.room,
                        player |-> res.out[1].data.currentPlayer]>>]
             ELSE pendingJoin
  /\ UNCHANGED <<connected, db2, client, view>>

\* the rest of handleJoinRoom: room-joined with the room the handler holds,
\* then player-joined and the selection status; no state is written
JoinRoomEnd(s) ==
  /\ pendingJoin[s] # <<>>
  /\ pendingJoin' = [pendingJoin EXCEPT ![s] = <<>>]
  /\ UNCHANGED <<db, playerSocketMap, socketPlayerMap, socketRooms, connected,
                 last, db2, client, view>>

\* what the suspended handler of socket s will emit when it resumes
joinRoomEmits(s) ==
  <<emit(s, "room-joined", [room |-> pendingJoin[s][1].room,
                            currentPlayer |-> pendingJoin[s][1].player]),
    socketTo(State, s, pendingJoin[s][1].roomId, "player-joined",
             [player |-> pendingJoin[s][1].player]),
    broadcastPlayerSelectionStatus(State, pendingJoin[s][1].roomId)>>

AsyncRooms == { <<"A">> }
AsyncNames == { <<"a">>, <<" ", "b">> }

\* no suspended join has seen its room change yet; the runs explored let at
\* most one handler change the room of a suspended join before it resumes
Undisturbed ==
  \A s \in Sockets :
    pendingJoin[s] # <<>>
      => pendingJoin[s][1].room
           = roomToJSON(pendingJoin[s][1].roomId,
                        db.rooms[pendingJoin[s][1].roomId])

\* one room, two names; every handler may run while a join is suspended
NextAsync ==
  \/ \E s \in Sockets : Undisturbed /\ Connect(s)
  \/ \E s \in Sockets, r \in AsyncRooms, n \in AsyncNames :
        Undisturbed /\ JoinRoomBegin(s, r, n)
  \/ \E s \in Sockets : JoinRoomEnd(s)
  \/ \E s \in Sockets : Undisturbed /\ StartRound(s, FALSE)
  \/ \E s \in Sockets, c \in CardInputs2 :
        Undisturbed /\ SelectCard(s, c, c, FALSE)
  \/ \E s \in Sockets : Undisturbed /\ RevealCards(s, FALSE)
  \/ \E s \in Sockets : Undisturbed /\ LeaveRoom(s, FALSE)
  \/ \E s \in Sockets, t \in PlayerIds :
        Undisturbed /\ RemovePlayer(s, t, FALSE)
  \/ \E s \in Sockets : Undisturbed /\ Disconnect(s, FALSE)

SpecAsync == Init /\ [][NextAsync]_vars

\* ------------------------------------------- object identity in the store
\* The objects behind one stored room, as a heap: an address is <<kind, n>>,
\* a field that holds an object holds its address.  <<"room", 0>> is the Room
\* object in the rooms Map, <<"players", 0>> its players array, <<"player", i>>
\* the i-th Player, <<"round", 0>> the EstimationRound and <<"cards", 0>> its
\* cards Map.
HeapOf(room) ==
  [a \in {<<"room", 0>>, <<"players", 0>>}
         \cup { <<"player", i>> : i \in 1..Len(room.players) }
         \cup (IF room.currentRound = <<>> THEN {}
               ELSE {<<"round", 0>>, <<"cards", 0>>}) |->
     CASE a[1] = "room" ->
            [players |-> <<"players", 0>>,
             currentRound |-> IF room.currentRound = <<>> THEN <<>>
                              ELSE << <<"round", 0>> >>]
       [] a[1] = "players" -> [i \in 1..Len(room.players) |-> <<"player", i>>]
       [] a[1] = "player" -> room.players[a[2]]
       [] a[1] = "round" ->
            [cards |-> <<"cards", 0>>,
             isRevealed |-> room.currentRound[1].isRevealed]
       [] a[1] = "cards" -> room.currentRound[1].cards]

\* the value of the EstimationRound object at address y
RoundAt(heap, y) ==
  [cards |-> heap[heap[y].cards], isRevealed |-> heap[y].isRevealed]

\* the value of the Room object at address x
RoomAt(heap, x) ==
  [players |-> [i \in 1..Len(heap[heap[x].players]) |->
                  heap[heap[heap[x].players][i]]],
   currentRound |-> IF heap[x].currentRound = <<>> THEN <<>>
                    ELSE <<RoundAt(heap, heap[x].currentRound[1])>>]

\* getRoom: { ...room } is a new Room object whose fields hold the same
\* addresses as the stored one
getRoomRef(heap) ==
  [heap |-> Put(heap, <<"copy", 0>>, heap[<<"room", 0>>]), ref |-> <<"copy", 0>>]

\* getCurrentRound: a new round object with a new Map of the same entries;
\* ref is <<>> for null
getCurrentRoundRef(heap) ==
  IF heap[<<"room", 0>>].currentRound = <<>> THEN [heap |-> heap, ref |-> <<>>]
  ELSE LET round == heap[heap[<<"room", 0>>].currentRound[1]]
       IN [heap |-> Put(Put(heap, <<"cardsCopy", 0>>, heap[round.cards]),
                        <<"roundCopy", 0>>,
                        [cards |-> <<"cardsCopy", 0>>,
                         isRevealed |-> round.isRevealed]),
           ref |-> << <<"roundCopy", 0>> >>]

\* what a caller can do with a Room x or a round y it was given:
\* x.players.push(player)
pushPlayer(heap, x, player) ==
  Put(Put(heap, <<"pushed", 0>>, player),
      heap[x].players, Append(heap[heap[x].players], <<"pushed", 0>>))
\* x.players[i].isConnected = !x.players[i].isConnected
flipPlayer(heap, x, i) ==
  Put(heap, heap[heap[x].players][i],
      [heap[heap[heap[x].players][i]] EXCEPT !.isConnected = ~@])
\* y.cards.set(playerId, cardValue)
setCard(heap, y, playerId, cardValue) ==
  Put(heap, heap[y].cards, MapSet(heap[heap[y].cards], playerId, cardValue))

\* ------------------------------------------- a client that reconnects
\* connections the client may lose in a run
MaxLosses == 1

RejoinRooms == { <<"A">> }
RejoinNames == { <<"a">>, <<"A">>, <<" ", "b">> }

\* io(): the client gets a socket.  The effect on isConnected arms the rejoin
\* timer when roomStateRef holds a room, a name and hasJoined, and resets
\* hasJoined.
ClientConnect(s) ==
  /\ client.socket = "none"
  /\ s \notin connected
  /\ s \notin DOMAIN socketPlayerMap
  /\ s \notin Range2(playerSocketMap)
  /\ connected' = connected \cup {s}
  /\ last' = [NoLast EXCEPT !.act = "connect"]
  /\ client' = IF client.roomId # <<>> /\ client.playerName # <<>>
                  /\ client.hasJoined
                THEN [client EXCEPT !.socket = s, !.hasJoined = FALSE,
                                    !.armed = TRUE]
                ELSE [client EXCEPT !.socket = s]
  /\ UNCHANGED <<db, playerSocketMap, socketPlayerMap, socketRooms, db2,
                 pendingJoin, view>>

\* the answer of the server to the client's join-room: room-joined sets
\* hasJoined and tells the client its player, an error changes nothing
Joined(c, res) ==
  IF res.ok
  THEN [c EXCEPT !.hasJoined = TRUE, !.pid = res.out[1].data.currentPlayer.id]
  ELSE c

\* joinRoom of the hook, called by the user before any connection is lost:
\* roomStateRef takes the trimmed room and name, and join-room is sent
ClientJoinRoom(roomId, playerName) ==
  /\ client.socket \in connected
  /\ client.losses = 0
  /\ trim(roomId) # <<>> /\ trim(playerName) # <<>>
  /\ LET res == handleJoinRoom(State, client.socket, trim(roomId),
                               trim(playerName), uuidv4)
     IN /\ res.created => uuidv4 # 0
        /\ CommitState(res, "join-room", res.pid)
        /\ client' = Joined([client EXCEPT !.roomId = trim(roomId),
                                           !.playerName = trim(playerName),
                                           !.hasJoined = FALSE], res)
  /\ UNCHANGED <<connected, db2, pendingJoin, view>>

\* the user's other actions, before any connection is lost
ClientStartRound ==
  /\ client.socket \in connected
  /\ client.losses = 0
  /\ StartRound(client.socket, FALSE)

ClientSelectCard(cardValue) ==
  /\ client.socket \in connected
  /\ client.losses = 0
  /\ SelectCard(client.socket, cardValue, cardValue, FALSE)

ClientRevealCards ==
  /\ client.socket \in connected
  /\ client.losses = 0
  /\ RevealCards(client.socket, FALSE)

\* the connection breaks: the client has no socket any more, the server has
\* not yet seen the disconnect
ClientLoseConnection ==
  /\ client.socket # "none"
  /\ client.losses < MaxLosses
  /\ client' = [client EXCEPT !.socket = "none", !.losses = @ + 1,
                              !.armed = FALSE]
  /\ UNCHANGED <<db, playerSocketMap, socketPlayerMap, socketRooms, connected,
                 last, db2, pendingJoin, view>>

\* the rejoin timer fires: join-room with the stored room and name, once
ClientRejoin ==
  /\ client.armed
  /\ client.socket \in connected
  /\ LET res == handleJoinRoom(State, client.socket, client.roomId,
                               client.playerName, uuidv4)
     IN /\ res.created => uuidv4 # 0
        /\ CommitState(res, "join-room", res.pid)
        /\ client' = [Joined(client, res) EXCEPT !.armed = FALSE]
  /\ UNCHANGED <<connected, db2, pendingJoin, view>>

\* the server notices that a connection the client has lost is gone
ServerDisconnect(s) ==
  /\ s # client.socket
  /\ Disconnect(s, FALSE)

NextRejoin ==
  \/ \E s \in Sockets : ClientConnect(s)
  \/ \E r \in RejoinRooms, n \in RejoinNames : ClientJoinRoom(r, n)
  \/ ClientStartRound
  \/ \E c \in CardInputs : ClientSelectCard(c)
  \/ ClientRevealCards
  \/ ClientLoseConnection
  \/ ClientRejoin
  \/ \E s \in Sockets : ServerDisconnect(s)

\* the client's socket connects and its timer fires; the server handles the
\* disconnect of a lost connection (ping timeout)
SpecRejoin ==
  /\ Init
  /\ [][NextRejoin]_vars
  /\ WF_vars(\E s \in Sockets : ClientConnect(s))
  /\ WF_vars(ClientRejoin)
  /\ WF_vars(\E s \in Sockets : ServerDisconnect(s))

\* ------------------------------------------- the room state of the browsers
\* useRoomState.handleRoomJoined: the room of the answer and the state of its
\* round; the room is kept by its id
handleRoomJoined(data) ==
  [room |-> <<data.room.id>>,
   roundState |-> IF data.room.currentRound # <<>>
                  THEN IF data.room.currentRound[1].isRevealed
                       THEN "REVEALED" ELSE "ACTIVE"
                  ELSE "WAITING",
   estimationResult |-> <<>>]

handleRoundStarted(v) ==
  [v EXCEPT !.roundState = "ACTIVE", !.estimationResult = <<>>]

handleCardsRevealed(v, result) ==
  [v EXCEPT !.roundState = "REVEALED", !.estimationResult = <<result>>]

\* what one notification does to the room state of the browser it reaches
OnEvent(v, msg) ==
  CASE msg.ev = "room-joined" -> handleRoomJoined(msg.data)
    [] msg.ev = "round-started" -> handleRoundStarted(v)
    [] msg.ev = "cards-revealed" -> handleCardsRevealed(v, msg.data.result)
    [] OTHER -> v

\* the notifications of a handler run, delivered in order to the live sockets
RECURSIVE Deliver(_, _, _)
Deliver(views, out, live) ==
  IF out = <<>> THEN views
  ELSE Deliver([s \in Sockets |->
                  IF s \in Head(out).to \cap live
                  THEN OnEvent(views[s], Head(out)) ELSE views[s]],
               Tail(out), live)

\* useRoomState.resetRoomState, which handleLeaveRoom repeats
resetRoomState == NoView

\* the room selection screen sends join-room
ViewJoinRoom(s, roomId, playerName) ==
  /\ s \in connected
  /\ view[s].room = <<>>
  /\ LET res == handleJoinRoom(State, s, roomId, playerName, uuidv4)
     IN /\ res.created => uuidv4 # 0
        /\ CommitState(res, "join-room", res.pid)
        /\ view' = Deliver(view, res.out, connected)
  /\ UNCHANGED <<connected, db2, pendingJoin, client>>

\* the room screen sends start-round, select-card and reveal-cards
ViewStartRound(s) ==
  /\ s \in connected
  /\ view[s].room # <<>>
  /\ LET res == handleStartRound(State, s)
     IN /\ CommitState(res, "start-round", res.pid)
        /\ view' = Deliver(view, res.out, connected)
  /\ UNCHANGED <<connected, db2, pendingJoin, client>>

ViewSelectCard(s, cardValue) ==
  /\ s \in connected
  /\ view[s].room # <<>>
  /\ LET res == handleSelectCard(State, s, cardValue)
     IN /\ CommitState(res, "select-card", res.pid)
        /\ view' = Deliver(view, res.out, connected)
  /\ UNCHANGED <<connected, db2, pendingJoin, client>>

ViewRevealCards(s) ==
  /\ s \in connected
  /\ view[s].room # <<>>
  /\ LET res == handleRevealCards(State, s)
     IN /\ CommitState(res, "reveal-cards", res.pid)
        /\ view' = Deliver(view, res.out, connected)
  /\ UNCHANGED <<connected, db2, pendingJoin, client>>

\* useGameActions.handleLeaveRoom: leave-room is sent, the room state is reset
ViewLeaveRoom(s) ==
  /\ s \in connected
  /\ view[s].room # <<>>
  /\ LET res == handleLeaveRoom(State, s)
     IN /\ CommitState(res, "leave-room", res.pid)
        /\ view' = [Deliver(view, res.out, connected) EXCEPT
                      ![s] = resetRoomState]
  /\ UNCHANGED <<connected, db2, pendingJoin, client>>

\* the browser is closed
ViewDisconnect(s) ==
  /\ s \in connected
  /\ LET res == handleDisconnect(State, s)
     IN /\ CommitState(res, "disconnect", res.pid)
        /\ view' = [Deliver(view, res.out, connected \ {s}) EXCEPT
                      ![s] = NoView]
  /\ connected' = connected \ {s}
  /\ UNCHANGED <<db2, pendingJoin, client>>

NextView ==
  \/ \E s \in Sockets : Connect(s)
  \/ \E s \in Sockets, r \in RoomInputs2, n \in NameInputs2 :
        ViewJoinRoom(s, r, n)
  \/ \E s \in Sockets : ViewStartRound(s)
  \/ \E s \in Sockets, c \in CardInputs2 : ViewSelectCard(s, c)
  \/ \E s \in Sockets : ViewRevealCards(s)
  \/ \E s \in Sockets : ViewLeaveRoom(s)
  \/ \E s \in Sockets : ViewDisconnect(s)

SpecView == Init /\ [][NextView]_vars

\* ------------------------------------------- the statistics of a round
\* card values the store is given: numeric ones, "?" and the break token
StatsCards == { "0.5", "1", "3", "8", "?", "BRK" }
StatsRoom == <<"A">>

\* a room with MaxPlayers players
StatsCreateRoom ==
  /\ StatsRoom \notin DOMAIN db.rooms
  /\ db' = [dbCreateRoom(db, StatsRoom) EXCEPT
             !.rooms[StatsRoom].players =
                [i \in 1..MaxPlayers |->
                   [id |-> i, name |-> <<"a">>, isConnected |-> TRUE]]]
  /\ UNCHANGED <<playerSocketMap, socketPlayerMap, socketRooms, connected, last,
                 db2, pendingJoin, client, view>>

StatsSetCurrentRound ==
  /\ db' = setCurrentRound(db, StatsRoom, <<newRound>>).db
  /\ UNCHANGED <<playerSocketMap, socketPlayerMap, socketRooms, connected, last,
                 db2, pendingJoin, client, view>>

StatsAddCard(playerId, cardValue) ==
  /\ db' = addCardToCurrentRound(db, StatsRoom, playerId, cardValue).db
  /\ UNCHANGED <<playerSocketMap, socketPlayerMap, socketRooms, connected, last,
                 db2, pendingJoin, client, view>>

StatsRevealCards ==
  /\ db' = revealCardsInCurrentRound(db, StatsRoom).db
  /\ UNCHANGED <<playerSocketMap, socketPlayerMap, socketRooms, connected, last,
                 db2, pendingJoin, client, view>>

NextStats ==
  \/ StatsCreateRoom
  \/ StatsSetCurrentRound
  \/ \E p \in PlayerIds, c \in StatsCards : StatsAddCard(p, c)
  \/ StatsRevealCards

SpecStats == Init /\ [][NextStats]_vars

\* ------------------------------------------------ the store on its own
\* a caller of InMemoryDatabase: any operation on any room key and player
StoreRooms == { <<"A">>, <<"B">> }
StorePlayers == { [id |-> 1, name |-> <<"a">>, isConnected |-> TRUE],
                  [id |-> 2, name |-> <<"b">>, isConnected |-> TRUE] }

\* the caller checks for existence first: createRoom does not merge
StoreCreateRoom(r) ==
  /\ r \notin DOMAIN db.rooms
  /\ db' = dbCreateRoom(db, r)
  /\ UNCHANGED <<playerSocketMap, socketPlayerMap, socketRooms, connected, last,
                 db2, pendingJoin, client, view>>

StoreDeleteRoom(r) ==
  /\ db' = deleteRoom(db, r).db
  /\ UNCHANGED <<playerSocketMap, socketPlayerMap, socketRooms, connected, last,
                 db2, pendingJoin, client, view>>

StoreAddPlayer(r, player) ==
  /\ r \in DOMAIN db.rooms => Len(db.rooms[r].players) < MaxEntries
  /\ db' = addPlayerToRoom(db, r, player).db
  /\ UNCHANGED <<playerSocketMap, socketPlayerMap, socketRooms, connected, last,
                 db2, pendingJoin, client, view>>

StoreRemovePlayer(r, id) ==
  /\ db' = removePlayerFromRoom(db, r, id).db
  /\ UNCHANGED <<playerSocketMap, socketPlayerMap, socketRooms, connected, last,
                 db2, pendingJoin, client, view>>

StoreUpdatePlayer(r, id, isConnected) ==
  /\ db' = updatePlayerInRoom(db, r, id, isConnected).db
  /\ UNCHANGED <<playerSocketMap, socketPlayerMap, socketRooms, connected, last,
                 db2, pendingJoin, client, view>>

NextStore ==
  \/ \E r \in StoreRooms : StoreCreateRoom(r)
  \/ \E r \in StoreRooms : StoreDeleteRoom(r)
  \/ \E r \in StoreRooms, player \in StorePlayers : StoreAddPlayer(r, player)
  \/ \E r \in StoreRooms, id \in PlayerIds : StoreRemovePlayer(r, id)
  \/ \E r \in StoreRooms, id \in PlayerIds, c \in BOOLEAN :
        StoreUpdatePlayer(r, id, c)

SpecStore == Init /\ [][NextStore]_vars

\* ------------------------------------------------------------- properties
\* the sockets that are bound to a player who is in a room
Bound == { s \in connected : s \in DOMAIN socketPlayerMap
                             /\ getPlayerRoom(db, socketPlayerMap[s]) # <<>> }

\* the ids of the active players of room r
ActiveIds(d, r) ==
  { d.rooms[r].players[i].id :
      i \in { j \in 1..Len(d.rooms[r].players) : d.rooms[r].players[j].isConnected } }

Redacted(d) ==
  [d EXCEPT !.rooms =
     [r \in DOMAIN d.rooms |->
        [players |-> d.rooms[r].players,
         currentRound |->
           IF d.rooms[r].currentRound = <<>> THEN <<>>
           ELSE LET round == d.rooms[r].currentRound[1]
                IN <<[cards |-> [i \in 1..Len(round.cards) |-> round.cards[i].id],
                      isRevealed |-> round.isRevealed]>>]]]

\* the handler runs res and res2 of the two runs send the same events with the
\* same payloads to the same sockets, unless the round of the room is revealed
\* once the handler has run
SameUntilReveal(res, res2) ==
  RoundState(res.st.db, res.room) # "revealed" => res.out = res2.out

\* the round of a room-joined payload carries no submitted value
NoValueInSnapshot(res) ==
  \A k \in 1..Len(res.out) :
    (res.out[k].ev = "room-joined" /\ res.out[k].data.room.currentRound # <<>>)
      => res.out[k].data.room.currentRound[1].cards = <<>>

Isolated(A, res) ==
  \A B \in (DOMAIN db.rooms) \ {A} :
    /\ res.st.db.rooms[B] = db.rooms[B]
    /\ \A k \in 1..Len(res.out) : \A t \in res.out[k].to :
         ~ /\ t \in DOMAIN res.st.socketPlayerMap
           /\ getPlayerRoom(res.st.db, res.st.socketPlayerMap[t]) = <<B>>

\* C3: an action of a socket bound to a participant of room A neither changes
\* the state of another room B nor sends a notification to a socket bound to a
\* participant of B.
C3_RoomIsolation ==
  \A s \in Bound :
    LET A == getPlayerRoom(db, socketPlayerMap[s])[1]
    IN /\ Isolated(A, handleStartRound(State, s))
       /\ \A c \in CardInputs2 : Isolated(A, handleSelectCard(State, s, c))
       /\ Isolated(A, handleRevealCards(State, s))
       /\ Isolated(A, handleLeaveRoom(State, s))
       /\ \A t \in PlayerIds : Isolated(A, handleRemovePlayer(State, s, t))
       /\ Isolated(A, handleDisconnect(State, s))

\* C4: joining a room under a name that matches, case-insensitively, an
\* inactive participant of the room returns that participant's id, marks the
\* participant active and adds no entry to the participant list.
C4_ReconnectionReusesIdentity ==
  \A r \in DOMAIN db.rooms : \A n \in NameInputs :
    LET ps == db.rooms[r].players
        res == joinRoom(db, r, n, uuidv4)
        after == res.db.rooms[r].players
    IN \A i \in 1..Len(ps) :
         (~ps[i].isConnected /\ toLowerCase(ps[i].name) = toLowerCase(n))
           => /\ res.success
              /\ res.player[1].id = ps[i].id
              /\ res.player[1].isConnected
              /\ Len(after) = Len(ps)
              /\ \A j \in 1..Len(ps) : after[j].id = ps[j].id
              /\ after[i].isConnected
              /\ Cardinality({ after[j].id : j \in 1..Len(after) }) = Len(after)

\* a socket has joined without a player being created: it has taken over the
\* participant the room had kept, who is active again
C4_Witness ==
  /\ last.act = "join-room"
  /\ ~last.created
  /\ \E s \in Bound :
       LET pid == socketPlayerMap[s]
           p == getPlayerInRoom(db, pid, getPlayerRoom(db, pid)[1])
       IN p # <<>> /\ p[1].isConnected /\ p[1].name = <<"A">>

\* the submission the round of room roomOpt holds for player pid
ValueOf(d, roomOpt, pid) == MapGet(getCurrentRound(d, roomOpt[1])[1].cards, pid)

\* the Result of room roomOpt has an entry of player pid with value v
InResult(d, roomOpt, pid, v) ==
  LET result == calculateEstimationResult(d, roomOpt[1])
  IN /\ result # <<>>
     /\ \E k \in 1..Len(result[1].cards) :
          /\ result[1].cards[k].playerId = pid
          /\ result[1].cards[k].cardValue = v

C7_SubmitAfterReveal ==
  \A r \in DOMAIN db.rooms :
    RoundState(db, <<r>>) = "revealed" =>
      \A i \in 1..Len(db.rooms[r].players) :
        \A c \in { v \in CardInputs : includes(PLANNING_POKER_DECK, v) } :
          LET pid == db.rooms[r].players[i].id
              sc == submitCard(db, r, pid, c)
          IN /\ sc.err = ""
             /\ Voted(sc.db, <<r>>, pid)
             /\ ValueOf(sc.db, <<r>>, pid) = c

\* C8: revealing a round that is already revealed succeeds, leaves the round
\* as it is and returns the Result of the unchanged submissions.
C8_IdempotentReveal ==
  \A r \in DOMAIN db.rooms :
    RoundState(db, <<r>>) = "revealed" =>
      LET rv == revealCards(db, r)
      IN /\ rv.err = ""
         /\ rv.db = db
         /\ rv.result = calculateEstimationResult(db, r)

\* C9: startRound on a room that has a participant succeeds whatever the round
\* of the room is (none, collecting or revealed), and leaves a round that is
\* unrevealed and has no submission.
C9_RoundReplacement ==
  /\ \A r \in DOMAIN db.rooms :
       Len(db.rooms[r].players) > 0 =>
         LET sr == startRound(db, r)
         IN /\ sr.err = ""
            /\ getCurrentRound(sr.db, r) = <<[cards |-> <<>>, isRevealed |-> FALSE]>>
  /\ \A s \in Bound :
       LET res == handleStartRound(State, s)
       IN /\ res.ok
          /\ getCurrentRound(res.st.db, res.room[1])
               = <<[cards |-> <<>>, isRevealed |-> FALSE]>>

\* a round that held the starter's submission has been replaced by an empty one
C9_Witness ==
  /\ last.act = "start-round"
  /\ last.preRound = "collecting"
  /\ last.preVoted
  /\ \E r \in DOMAIN db.rooms :
       getCurrentRound(db, r) = <<[cards |-> <<>>, isRevealed |-> FALSE]>>

\* C10: areAllCardsSubmitted, and isEstimationComplete of the room utilities,
\* hold exactly when the room has a round, has an active participant, and every
\* active participant has a submission; inactive participants do not count.
C10_Completeness ==
  \A r \in (DOMAIN db.rooms) \cup { <<"Z">> } :
    LET complete ==
          /\ r \in DOMAIN db.rooms
          /\ db.rooms[r].currentRound # <<>>
          /\ ActiveIds(db, r) # {}
          /\ ActiveIds(db, r) \subseteq MapKeys(db.rooms[r].currentRound[1].cards)
    IN /\ areAllCardsSubmitted(db, r) <=> complete
       /\ isEstimationComplete(db, r) <=> complete

\* a submission has completed a round although an inactive participant of the
\* room has none
C10_Witness ==
  /\ last.act = "select-card"
  /\ \E r \in DOMAIN db.rooms :
       /\ areAllCardsSubmitted(db, r)
       /\ \E i \in 1..Len(db.rooms[r].players) :
            /\ ~db.rooms[r].players[i].isConnected
            /\ ~Voted(db, <<r>>, db.rooms[r].players[i].id)

\* the error events of a handler run
Errors(res) == { k \in 1..Len(res.out) : res.out[k].ev = "error" }

\* C11: remove-player aimed at an active participant is answered with an
\* error to the caller and changes neither the store nor the socket maps; a
\* removal that takes place has an inactive target in the caller's own room.
C11_RemovalRestriction ==
  \A s \in connected : \A t \in PlayerIds :
    LET res == handleRemovePlayer(State, s, t)
        targetRoom == getPlayerRoom(db, t)
        target == getPlayerInRoom(db, t, targetRoom[1])
        isActive == targetRoom # <<>> /\ target # <<>> /\ target[1].isConnected
    IN /\ isActive =>
            /\ ~res.ok
            /\ res.st = State
            /\ Errors(res) # {}
            /\ \A k \in Errors(res) : res.out[k].to = {s}
       /\ res.st # State =>
            /\ res.ok
            /\ ~isActive
            /\ target # <<>>
            /\ s \in DOMAIN socketPlayerMap
            /\ targetRoom = getPlayerRoom(db, socketPlayerMap[s])
            /\ getPlayerInRoom(res.st.db, t, targetRoom[1]) = <<>>

\* a member of a room asks for the removal of another member who is active
\* and has a submission, and is told that connected players cannot be removed
C11_Witness ==
  \E s \in Bound : \E t \in PlayerIds \ {socketPlayerMap[s]} :
    /\ getPlayerRoom(db, t) = getPlayerRoom(db, socketPlayerMap[s])
    /\ Voted(db, getPlayerRoom(db, t), t)
    /\ handleRemovePlayer(State, s, t).out
         = <<emit(s, "error", [message |-> "Cannot remove connected players"])>>

\* a handler run that reports an error leaves the store as it was
NoEffectOnError(res) == Errors(res) # {} => res.st.db = db

\* C12: an action that ends by reporting an error to the caller leaves the
\* store (rooms, participant lists, connectivity flags, rounds, reverse map)
\* exactly as it was before the action.
C12_AllOrNothing ==
  \A s \in connected :
    /\ \A r \in RoomInputs, n \in NameInputs :
         NoEffectOnError(handleJoinRoom(State, s, r, n, uuidv4))
    /\ NoEffectOnError(handleStartRound(State, s))
    /\ \A c \in CardInputs : NoEffectOnError(handleSelectCard(State, s, c))
    /\ NoEffectOnError(handleRevealCards(State, s))
    /\ NoEffectOnError(handleLeaveRoom(State, s))
    /\ \A t \in PlayerIds : NoEffectOnError(handleRemovePlayer(State, s, t))

\* in a revealed round that holds a submission, a member's select-card and
\* reveal-cards both end with an error, and a join under a taken name does too
C12_Witness ==
  \E s \in Bound :
    /\ RoundState(db, getPlayerRoom(db, socketPlayerMap[s])) = "revealed"
    /\ Voted(db, getPlayerRoom(db, socketPlayerMap[s]), socketPlayerMap[s])
    /\ Errors(handleSelectCard(State, s, "3")) # {}
    /\ Errors(handleRevealCards(State, s)) # {}
    /\ \E t \in connected \ {s} :
         Errors(handleJoinRoom(State, t, <<"A", " ">>, <<"a">>, uuidv4)) # {}

\* every error event of a handler run for socket s goes to s alone
ErrorsToActor(res, s) == \A k \in Errors(res) : res.out[k].to = {s}

\* C13: an error notification produced while handling an action is delivered
\* to the socket that sent the action and to no other socket.
C13_ErrorsPrivate ==
  \A s \in connected :
    /\ \A r \in RoomInputs, n \in NameInputs :
         ErrorsToActor(handleJoinRoom(State, s, r, n, uuidv4), s)
    /\ ErrorsToActor(handleStartRound(State, s), s)
    /\ \A c \in CardInputs : ErrorsToActor(handleSelectCard(State, s, c), s)
    /\ ErrorsToActor(handleRevealCards(State, s), s)
    /\ ErrorsToActor(handleLeaveRoom(State, s), s)
    /\ \A t \in PlayerIds : ErrorsToActor(handleRemovePlayer(State, s, t), s)
    /\ ErrorsToActor(handleDisconnect(State, s), s)

\* two sockets are in the same socket.io room, and an action of one of them
\* on that room ends with an error
C13_Witness ==
  \E s \in Bound :
    LET roomId == getPlayerRoom(db, socketPlayerMap[s])[1]
    IN /\ inRoom(State, roomId) \ {s} # {}
       /\ Errors(handleRevealCards(State, s)) # {}
       /\ \E c \in CardInputs : Errors(handleSelectCard(State, s, c)) # {}

\* a handler run broadcasts all-cards-submitted exactly if it makes the round
\* of some room complete that was not complete before
OnceWhenComplete(res) ==
  (\E k \in 1..Len(res.out) : res.out[k].ev = "all-cards-submitted")
    <=> \E r \in DOMAIN res.st.db.rooms :
          /\ ~areAllCardsSubmitted(db, r)
          /\ areAllCardsSubmitted(res.st.db, r)

\* C14: all-cards-submitted is broadcast exactly by the actions that turn
\* completeness of the current round from false to true, and not again by an
\* action that finds the round complete and leaves it complete.
C14_AllSubmittedOnce ==
  \A s \in connected :
    /\ \A r \in RoomInputs, n \in NameInputs :
         OnceWhenComplete(handleJoinRoom(State, s, r, n, uuidv4))
    /\ OnceWhenComplete(handleStartRound(State, s))
    /\ \A c \in CardInputs : OnceWhenComplete(handleSelectCard(State, s, c))
    /\ OnceWhenComplete(handleRevealCards(State, s))
    /\ OnceWhenComplete(handleLeaveRoom(State, s))
    /\ \A t \in PlayerIds : OnceWhenComplete(handleRemovePlayer(State, s, t))
    /\ OnceWhenComplete(handleDisconnect(State, s))

\* the positions of the cards-revealed events of a handler run
Results(res) == { k \in 1..Len(res.out) : res.out[k].ev = "cards-revealed" }

\* C15: a socket that joins or rejoins a room whose round is revealed is sent
\* room-joined and then cards-revealed with the Result of the round, both to
\* itself alone; a socket that joins a room whose round is absent or
\* unrevealed is sent no Result.
C15_ResultOnRejoin ==
  \A s \in connected : \A r \in RoomInputs, n \in NameInputs :
    LET res == handleJoinRoom(State, s, r, n, uuidv4)
        result == calculateEstimationResult(res.st.db, res.room[1])
    IN res.ok =>
         /\ res.out[1].ev = "room-joined"
         /\ res.out[1].to = {s}
         /\ \A k \in 2..Len(res.out) : res.out[k].ev # "room-joined"
         /\ IF RoundState(db, res.room) = "revealed"
            THEN /\ Results(res) = {2}
                 /\ res.out[2].to = {s}
                 /\ result # <<>>
                 /\ res.out[2].data = [result |-> result[1]]
            ELSE Results(res) = {}

\* a socket has joined a room whose round was revealed and holds a submission,
\* while another socket is in the socket.io room
C15_Witness ==
  /\ last.act = "join-room"
  /\ last.preRound = "revealed"
  /\ \E s \in Bound :
       LET roomOpt == getPlayerRoom(db, socketPlayerMap[s])
       IN /\ calculateEstimationResult(db, roomOpt[1]) # <<>>
          /\ calculateEstimationResult(db, roomOpt[1])[1].cards # <<>>
          /\ inRoom(State, roomOpt[1]) \ {s} # {}

\* C16: getPlayerSelectionStatus has one entry per participant of the room,
\* active or not, in the order of the participant list; hasSelected tells
\* whether the round holds a submission of the participant, isConnected is the
\* participant's flag, and an entry has no field for the submitted value.
C16_SelectionStatus ==
  \A r \in DOMAIN db.rooms :
    LET status == getPlayerSelectionStatus(db, r)
        ps == db.rooms[r].players
    IN /\ Len(status) = Len(ps)
       /\ \A i \in 1..Len(ps) :
            /\ DOMAIN status[i]
                 = {"playerId", "playerName", "hasSelected", "isConnected"}
            /\ status[i].playerId = ps[i].id
            /\ status[i].playerName = ps[i].name
            /\ status[i].hasSelected <=> Voted(db, <<r>>, ps[i].id)
            /\ status[i].isConnected <=> ps[i].isConnected

\* a room has an inactive participant whose submission the round holds and an
\* active participant who has none
C16_Witness ==
  \E r \in DOMAIN db.rooms :
    \E i, j \in 1..Len(db.rooms[r].players) :
      /\ ~db.rooms[r].players[i].isConnected
      /\ Voted(db, <<r>>, db.rooms[r].players[i].id)
      /\ db.rooms[r].players[j].isConnected
      /\ ~Voted(db, <<r>>, db.rooms[r].players[j].id)

\* the submitted values a round accessor hands out (none for null)
ValuesIn(roundOpt) ==
  IF roundOpt = <<>> THEN {}
  ELSE { roundOpt[1].cards[i].v : i \in 1..Len(roundOpt[1].cards) }

\* the selection status and the statistics accessors keep the values of an
\* unrevealed round to themselves
StatusAndStatisticsSilent(r) ==
  /\ \A i \in 1..Len(getPlayerSelectionStatus(db, r)) :
       DOMAIN getPlayerSelectionStatus(db, r)[i]
         = {"playerId", "playerName", "hasSelected", "isConnected"}
  /\ calculateEstimationResult(db, r) = <<>>
  /\ getCardDistribution(db, r) = <<>>

\* C17 as stated: while the round of a room is unrevealed, no accessor
\* (getRoundState, getRoomState, getPlayerSelectionStatus, the statistics
\* accessors) hands out a submitted value.
C17_NoAccessorBeforeReveal ==
  \A r \in DOMAIN db.rooms :
    RoundState(db, <<r>>) = "collecting" =>
      /\ ValuesIn(getRoundState(db, r)) = {}
      /\ ValuesIn(getRoomState(db, r)[1].currentRound) = {}
      /\ StatusAndStatisticsSilent(r)

\* C17 amended: while the round of a room is unrevealed, the selection status
\* and the statistics accessors hand out no submitted value (the statistics
\* accessors return null); getRoundState and getRoomState return the round
\* with its submissions, values included, whether it is revealed or not.
C17_AccessorPrivacy ==
  \A r \in DOMAIN db.rooms :
    /\ RoundState(db, <<r>>) = "collecting" => StatusAndStatisticsSilent(r)
    /\ getRoundState(db, r) = db.rooms[r].currentRound
    /\ getRoomState(db, r) = <<db.rooms[r]>>

\* a submission has been made to an unrevealed round, and getRoundState
\* returns its value
C17_Witness ==
  /\ last.act = "select-card"
  /\ \E r \in DOMAIN db.rooms :
       /\ RoundState(db, <<r>>) = "collecting"
       /\ ValuesIn(getRoundState(db, r)) # {}

\* room names a caller may pass to createRoom: "A", "A ", " A", "B ", "", " "
CreateInputs ==
  RoomInputs \cup RoomInputs2 \cup { <<" ", "A">>, <<" ">> }

\* C18: createRoom under a name whose trimmed form is the key of an existing
\* room returns that room and leaves it, and the rest of the store, as it
\* was; a join under a room name that does not exist creates the room and
\* makes the joiner its only participant.
C18_CreateRoomIdempotent ==
  /\ \A name \in CreateInputs :
       trim(name) \in DOMAIN db.rooms =>
         LET cr == createRoom(db, name)
         IN /\ cr.err = ""
            /\ cr.db = db
            /\ cr.room = <<db.rooms[trim(name)]>>
  /\ \A s \in connected : \A r \in CreateInputs, n \in NameInputs :
       (trim(r) # <<>> /\ trim(n) # <<>> /\ trim(r) \notin DOMAIN db.rooms) =>
         LET res == handleJoinRoom(State, s, r, n, uuidv4)
         IN /\ res.ok
            /\ res.created
            /\ DOMAIN res.st.db.rooms = (DOMAIN db.rooms) \cup {trim(r)}
            /\ res.st.db.rooms[trim(r)].players
                 = <<[id |-> res.pid, name |-> trim(n), isConnected |-> TRUE]>>
            /\ res.st.db.rooms[trim(r)].currentRound = <<>>
            /\ \A other \in DOMAIN db.rooms :
                 res.st.db.rooms[other] = db.rooms[other]

\* a join has created a player in a room that now has two participants and a
\* round with a submission, a room that createRoom is asked for again
C18_Witness ==
  /\ last.act = "join-room"
  /\ last.created
  /\ \E name \in CreateInputs :
       /\ name # trim(name)
       /\ trim(name) \in DOMAIN db.rooms
       /\ Len(db.rooms[trim(name)].players) = 2
       /\ ValuesIn(db.rooms[trim(name)].currentRound) # {}
       /\ createRoom(db, name).room = <<db.rooms[trim(name)]>>

\* the ids in the participant list of room r
IdsOf(d, r) == { d.rooms[r].players[i].id : i \in 1..Len(d.rooms[r].players) }

\* C19: after any sequence of store operations every id is in the participant
\* list of at most one room, and the reverse map sends an id to room r exactly
\* if the id is in the participant list of r.
C19_OneRoomPerParticipant ==
  \A id \in PlayerIds :
    /\ Cardinality({ r \in DOMAIN db.rooms : id \in IdsOf(db, r) }) <= 1
    /\ \A r \in StoreRooms :
         (id \in DOMAIN db.playerRoomMap /\ db.playerRoomMap[id] = r)
           <=> (r \in DOMAIN db.rooms /\ id \in IdsOf(db, r))

\* room-utils' form of the same operation, reporting instead of throwing
startEstimationRound(d, roomId) ==
  IF getRoom(d, roomId) = <<>> THEN [db |-> d, err |-> "Room not found"]
  ELSE IF Len(d.rooms[roomId].players) = 0
  THEN [db |-> d, err |-> "Cannot start round with no players"]
  ELSE LET r == setCurrentRound(d, roomId, <<newRound>>)
       IN [db |-> r.db, err |-> IF r.ok THEN "" ELSE "Failed to start round"]

\* room ids handed to startRound: the rooms in use, one that never exists and
\* the empty id
StartInputs == { <<"A">>, <<"B">>, <<"Z">>, <<>> }

\* C20: in every reachable state startRound on a room that does not exist or
\* has no participant fails and leaves the store, and so the room's round, as
\* it was; on a room with at least one participant it succeeds and installs a
\* fresh round, whether or not any participant is active.
C20_StartRoundPrecondition ==
  \A roomId \in StartInputs :
    \A sr \in { startRound(db, roomId), startEstimationRound(db, roomId) } :
       IF roomId \notin DOMAIN db.rooms \/ Len(db.rooms[roomId].players) = 0
       THEN sr.err # "" /\ sr.db = db
       ELSE /\ sr.err = ""
            /\ getCurrentRound(sr.db, roomId) = <<newRound>>
            /\ sr.db.rooms[roomId].players = db.rooms[roomId].players

\* one room has lost its last participant and still holds a round, the other
\* has participants and none of them is active
C20_Witness ==
  \E x, y \in DOMAIN db.rooms :
    /\ Len(db.rooms[x].players) = 0
    /\ db.rooms[x].currentRound # <<>>
    /\ startRound(db, x).err = "Cannot start round with no players"
    /\ Len(db.rooms[y].players) >= 1
    /\ \A i \in 1..Len(db.rooms[y].players) : ~db.rooms[y].players[i].isConnected
    /\ startRound(db, y).err = ""

\* the ids in the participant list of a room of the current store
MemberIds(roomId) == IdsOf(db, roomId)

\* C21: in every reachable state submitCard fails and leaves the store, and so
\* the round's submission map, unchanged when the value is not in the deck,
\* when the player is not in the room's participant list or when the room has
\* no round; when it succeeds the round maps the player to the new value,
\* every other player's entry is as before and nothing else changes.
C21_SubmitCardContract ==
  \A roomId \in StartInputs, playerId \in 0..MaxPlayers, cardValue \in CardInputs :
    LET r == submitCard(db, roomId, playerId, cardValue)
        old == getCurrentRound(db, roomId)
        new == getCurrentRound(r.db, roomId)
    IN /\ ( \/ ~includes(PLANNING_POKER_DECK, cardValue)
            \/ roomId \notin DOMAIN db.rooms
            \/ playerId \notin MemberIds(roomId)
            \/ old = <<>> )
          => r.err # "" /\ r.db = db
       /\ r.err = ""
          => /\ MapHas(new[1].cards, playerId)
             /\ MapGet(new[1].cards, playerId) = cardValue
             /\ MapKeys(new[1].cards) = MapKeys(old[1].cards) \cup {playerId}
             /\ Len(new[1].cards) = Cardinality(MapKeys(new[1].cards))
             /\ \A q \in MapKeys(old[1].cards) \ {playerId} :
                  MapGet(new[1].cards, q) = MapGet(old[1].cards, q)
             /\ r.db = [db EXCEPT !.rooms[roomId].currentRound[1].cards =
                          new[1].cards]

\* two players have submitted and one of them submits a different value
C21_Witness ==
  \E roomId \in DOMAIN db.rooms : \E p, q \in MemberIds(roomId) :
    /\ p # q
    /\ getCurrentRound(db, roomId) # <<>>
    /\ ~getCurrentRound(db, roomId)[1].isRevealed
    /\ MapHas(getCurrentRound(db, roomId)[1].cards, p)
    /\ MapHas(getCurrentRound(db, roomId)[1].cards, q)
    /\ MapGet(getCurrentRound(db, roomId)[1].cards, p) = "3"
    /\ submitCard(db, roomId, p, "8").err = ""
    /\ submitCard(db, roomId, p, "MOJI").err # ""

\* C22: in every reachable state socketPlayerMap and playerSocketMap are
\* inverses of each other, their sockets are live, and a player is marked
\* connected only while a live socket is bound to its id.
C22_ConnectionBinding ==
  /\ \A s \in DOMAIN socketPlayerMap :
       /\ s \in connected
       /\ socketPlayerMap[s] \in DOMAIN playerSocketMap
       /\ playerSocketMap[socketPlayerMap[s]] = s
  /\ \A p \in DOMAIN playerSocketMap :
       /\ playerSocketMap[p] \in DOMAIN socketPlayerMap
       /\ socketPlayerMap[playerSocketMap[p]] = p
  /\ \A roomId \in DOMAIN db.rooms :
       \A i \in 1..Len(db.rooms[roomId].players) :
         db.rooms[roomId].players[i].isConnected
           => \E s \in connected :
                /\ s \in DOMAIN socketPlayerMap
                /\ socketPlayerMap[s] = db.rooms[roomId].players[i].id

\* C23: whenever a join handler is suspended at its await, the room it is
\* about to send as room-joined is the room as the store holds it (no other
\* handler has changed the room since the join wrote it), and the joiner's
\* socket is in the socket.io room, so that it is sent every broadcast.
C23_JoinAtomic ==
  \A s \in Sockets :
    pendingJoin[s] # <<>>
      => LET roomId == pendingJoin[s][1].roomId
         IN /\ (s \in connected => roomId \in socketRooms[s])
            /\ joinRoomEmits(s)[1].data.room
                 = roomToJSON(roomId, db.rooms[roomId])

\* the runs of the handlers of start-round, select-card, reveal-cards and
\* remove-player for socket s, over all their inputs
BoundActions(s) ==
  { handleStartRound(State, s), handleRevealCards(State, s) }
  \cup { handleSelectCard(State, s, c) : c \in CardInputs }
  \cup { handleRemovePlayer(State, s, t) : t \in PlayerIds }

\* C24: in every reachable state each of these actions, sent by a live socket
\* that socketPlayerMap binds to no player, is answered with one error to that
\* socket and leaves the store and the gateway's maps as they were.
C24_UnboundRejected ==
  \A s \in connected :
    s \notin DOMAIN socketPlayerMap
      => \A res \in BoundActions(s) :
           /\ ~res.ok
           /\ res.st = State
           /\ Len(res.out) = 1
           /\ res.out[1].ev = "error"
           /\ res.out[1].to = {s}

\* C25: a participant who has submitted in an unrevealed round, disconnects
\* and rejoins the room under its name still has the submission in the round,
\* and a reveal after the rejoin has it in the Result.
C25_DisconnectPreservesSubmission ==
  \A s \in Bound :
    LET pid == socketPlayerMap[s]
        roomOpt == getPlayerRoom(db, pid)
        away == handleDisconnect(State, s).st
    IN (RoundState(db, roomOpt) = "collecting" /\ Voted(db, roomOpt, pid)) =>
         \A n \in NameInputs :
           LET back == handleJoinRoom(away, s, roomOpt[1], n, uuidv4)
               shown == revealCards(back.st.db, roomOpt[1])
           IN (back.ok /\ back.pid = pid) =>
                /\ Voted(back.st.db, roomOpt, pid)
                /\ ValueOf(back.st.db, roomOpt, pid) = ValueOf(db, roomOpt, pid)
                /\ shown.err = ""
                /\ InResult(shown.db, roomOpt, pid, ValueOf(db, roomOpt, pid))

\* C26: a client that had joined as player p and has lost its connection is
\* eventually bound to p again, on its new socket.
C26_AutoRejoin ==
  \A p \in PlayerIds :
    (client.socket = "none" /\ client.hasJoined /\ client.pid = p)
      ~> (/\ client.socket \in DOMAIN socketPlayerMap
          /\ socketPlayerMap[client.socket] = p
          /\ client.hasJoined)

\* C27: reveal-cards sent while an active player of the room has no submission
\* in the unrevealed round is answered with one error to the caller, and the
\* round stays unrevealed.
C27_RevealNeedsAllCards ==
  \A s \in Bound :
    LET roomOpt == getPlayerRoom(db, socketPlayerMap[s])
        res == handleRevealCards(State, s)
    IN ( /\ RoundState(db, roomOpt) = "collecting"
         /\ \E p \in ActiveIds(db, roomOpt[1]) : ~Voted(db, roomOpt, p) )
       => /\ ~res.ok
          /\ Len(res.out) = 1
          /\ res.out[1].ev = "error"
          /\ res.out[1].to = {s}
          /\ RoundState(res.st.db, roomOpt) = "collecting"

\* C28: in every reachable state every key of the cards Map of a room's round
\* is the id of a player in that room's list, so the round has at most as many
\* submissions as the room has players and every entry of the Result names a
\* player of the room.
C28_SubmissionsOfMembers ==
  \A roomId \in DOMAIN db.rooms :
    getCurrentRound(db, roomId) # <<>>
      => LET cards == getCurrentRound(db, roomId)[1].cards
             result == calculateEstimationResult(db, roomId)
         IN /\ MapKeys(cards) \subseteq IdsOf(db, roomId)
            /\ Len(cards) <= Len(db.rooms[roomId].players)
            /\ result # <<>>
                 => \A k \in 1..Len(result[1].cards) :
                      /\ result[1].cards[k].playerId \in IdsOf(db, roomId)
                      /\ result[1].cards[k].playerName # <<"Unknown">>

\* a player who had submitted has left or been removed, and the round still
\* holds another player's submission
C28_Witness ==
  /\ last.act \in {"leave-room", "remove-player"}
  /\ last.preVoted
  /\ \E roomId \in DOMAIN db.rooms :
       /\ getCurrentRound(db, roomId) # <<>>
       /\ getCurrentRound(db, roomId)[1].cards # <<>>

\* the heaps after a caller changed the Room it got from getRoom, or the round
\* it got from getCurrentRound, of the stored room
AfterCallerWrites(room) ==
  LET viaRoom == getRoomRef(HeapOf(room))
      viaRound == getCurrentRoundRef(HeapOf(room))
  IN { pushPlayer(viaRoom.heap, viaRoom.ref,
                  [id |-> 0, name |-> <<"x">>, isConnected |-> TRUE]) }
     \cup { flipPlayer(viaRoom.heap, viaRoom.ref, i) : i \in 1..Len(room.players) }
     \cup (IF room.currentRound = <<>> THEN {}
           ELSE { setCard(viaRoom.heap, viaRoom.heap[viaRoom.ref].currentRound[1],
                          0, "3"),
                  setCard(viaRound.heap, viaRound.ref[1], 0, "3") })

\* C29: whatever a caller does to the value it got from getRoom or
\* getCurrentRound (add to the players list, change a player's field, set an
\* entry of the cards Map), the stored room is as it was and a later getRoom
\* or getCurrentRound returns what it returned before.
C29_SnapshotIndependent ==
  \A roomId \in DOMAIN db.rooms :
    LET room == db.rooms[roomId]
    IN /\ RoomAt(HeapOf(room), <<"room", 0>>) = room
       /\ \A heap \in AfterCallerWrites(room) :
            /\ RoomAt(heap, <<"room", 0>>) = room
            /\ RoomAt(getRoomRef(heap).heap, getRoomRef(heap).ref) = room
            /\ room.currentRound # <<>> =>
                 RoundAt(getCurrentRoundRef(heap).heap,
                         getCurrentRoundRef(heap).ref[1]) = room.currentRound[1]

\* the numeric submissions of a Result, in halves
NumericOf(result) ==
  NumericCards([i \in 1..Len(result.cards) |-> result.cards[i].cardValue])

\* C30: the average of the Result of a revealed round is 0 when no submission
\* is numeric (or there is none), and otherwise the two-decimal number nearest
\* to the mean of the numeric submissions alone: "?" and the break token count
\* neither in the sum nor in the number of values.
C30_AverageOfNumeric ==
  \A roomId \in DOMAIN db.rooms :
    LET result == calculateEstimationResult(db, roomId)
        n == Len(NumericOf(result[1]))
        average == result[1].statistics.average
        Abs(x) == IF x < 0 THEN -x ELSE x
    IN result # <<>> =>
         IF n = 0 THEN average = 0
         ELSE /\ Abs(2 * n * average - 100 * Sum(NumericOf(result[1]))) <= n
              /\ n = Cardinality({ k \in 1..Len(result[1].cards) :
                                     result[1].cards[k].cardValue
                                       \notin {"?", "BRK"} })

\* a revealed round with a numeric submission, a "?" and a break token
C30_Witness ==
  \E roomId \in DOMAIN db.rooms :
    LET result == calculateEstimationResult(db, roomId)
    IN /\ result # <<>>
       /\ { result[1].cards[k].cardValue : k \in 1..Len(result[1].cards) }
            = {"3", "?", "BRK"}
       /\ result[1].statistics.average = 300

\* the number a decimal text denotes, in hundredths
DecimalValue(t) ==
  LET dot == FindIndex(t, LAMBDA c : c = ".")
      whole == IF dot = 0 THEN t ELSE SubSeq(t, 1, dot - 1)
      fraction == IF dot = 0 THEN <<>> ELSE SubSeq(t, dot + 1, Len(t))
      DigitValue(c) == CHOOSE d \in 0..9 : Digit(d) = c
      wholeValue == IF Len(whole) = 2
                    THEN 10 * DigitValue(whole[1]) + DigitValue(whole[2])
                    ELSE DigitValue(whole[1])
      fractionValue == CASE Len(fraction) = 0 -> 0
                         [] Len(fraction) = 1 -> 10 * DigitValue(fraction[1])
                         [] OTHER -> 10 * DigitValue(fraction[1])
                                       + DigitValue(fraction[2])
  IN 100 * wholeValue + fractionValue

\* a decimal text as JavaScript writes a number: no leading zero before
\* another digit, no trailing zero after the point
Canonical(t) ==
  /\ \A i \in 1..Len(t) : t[i] = "." \/ \E d \in 0..9 : Digit(d) = t[i]
  /\ Len(t) > 0 /\ t[1] # "." /\ t[Len(t)] # "."
  /\ (Len(t) > 1 /\ t[1] = "0") => t[2] = "."
  /\ (\E i \in 1..Len(t) : t[i] = ".") => t[Len(t)] # "0"

\* the k-th smallest of a sequence of numbers
Kth(s, k) ==
  CHOOSE v \in Range(s) :
    /\ Cardinality({ i \in 1..Len(s) : s[i] < v }) < k
    /\ k <= Cardinality({ i \in 1..Len(s) : s[i] <= v })

\* C31: the median of the Result of a revealed round is the text of the middle
\* value of the sorted numeric submissions when their number is odd and of the
\* mean of the two middle values when it is even; with submissions of which
\* none is numeric it is the first submission in iteration order; with no
\* submission it is "0".
C31_MedianOfNumeric ==
  \A roomId \in DOMAIN db.rooms :
    LET result == calculateEstimationResult(db, roomId)
        cards == result[1].cards
        numeric == NumericOf(result[1])
        n == Len(numeric)
        text == result[1].statistics.median
    IN result # <<>> =>
         CASE Len(cards) = 0 -> text = <<"0">>
           [] Len(cards) > 0 /\ n = 0 -> text = textOf(cards[1].cardValue)
           [] n > 0 /\ n % 2 = 1 ->
                /\ Canonical(text)
                /\ DecimalValue(text) = 50 * Kth(numeric, (n + 1) \div 2)
           [] OTHER ->
                /\ Canonical(text)
                /\ DecimalValue(text)
                     = 25 * (Kth(numeric, n \div 2)
                               + Kth(numeric, n \div 2 + 1))

\* a revealed round whose two numeric submissions 0.5 and 1 have the median
\* 0.75, next to a "?"
C31_Witness ==
  \E roomId \in DOMAIN db.rooms :
    LET result == calculateEstimationResult(db, roomId)
    IN /\ result # <<>>
       /\ { result[1].cards[k].cardValue : k \in 1..Len(result[1].cards) }
            = {"0.5", "1", "?"}
       /\ result[1].statistics.median = <<"0", ".", "7", "5">>

\* the place of a value in the deck 0.5, 1, 2, 3, 5, 8, 13, 21, ?, break
DeckRank(v) ==
  CASE v = "0.5" -> 1 [] v = "1" -> 2 [] v = "2" -> 3 [] v = "3" -> 4
    [] v = "5" -> 5 [] v = "8" -> 6 [] v = "13" -> 7 [] v = "21" -> 8
    [] v = "?" -> 9 [] v = "BRK" -> 10

\* C32: the range of the Result of a revealed round holds each submitted value
\* exactly once, in the order of the deck 0.5, 1, 2, 3, 5, 8, 13, 21, ?, break:
\* it is the set of distinct submitted values, not a minimum and a maximum.
C32_RangeInDeckOrder ==
  \A roomId \in DOMAIN db.rooms :
    LET result == calculateEstimationResult(db, roomId)
        cards == result[1].cards
        values == result[1].statistics.range
    IN result # <<>> =>
         /\ Range(values) = { cards[k].cardValue : k \in 1..Len(cards) }
         /\ \A i, j \in 1..Len(values) :
              i < j => DeckRank(values[i]) < DeckRank(values[j])

\* a revealed round where the break token was submitted before two 3s and
\* the range is 3, break
C32_Witness ==
  \E roomId \in DOMAIN db.rooms :
    LET result == calculateEstimationResult(db, roomId)
    IN /\ result # <<>>
       /\ [k \in 1..Len(result[1].cards) |-> result[1].cards[k].cardValue]
            = <<"BRK", "3", "3">>
       /\ result[1].statistics.range = <<"3", "BRK">>

\* C33: the hasVariance of a Result looks at the numeric submissions only and
\* is true exactly when there are at least two of them and either the largest
\* exceeds the smallest by more than 2 or the smallest is positive and the
\* largest is more than twice the smallest; hasSignificantVariance of the
\* same card values gives the same answer.
C33_VarianceOfNumeric ==
  \A roomId \in DOMAIN db.rooms :
    LET result == calculateEstimationResult(db, roomId)
        cards == result[1].cards
        cardValues == [k \in 1..Len(cards) |-> cards[k].cardValue]
        halves == { parseFloat(cardValues[k])[1] :
                      k \in { i \in 1..Len(cards) :
                                cardValues[i] \notin {"?", "BRK"} } }
        two == Cardinality({ i \in 1..Len(cards) :
                               cardValues[i] \notin {"?", "BRK"} }) >= 2
        far == \E lo, hi \in halves :
                 /\ \A x \in halves : lo <= x /\ x <= hi
                 /\ (hi - lo > 4 \/ (lo > 0 /\ hi > 2 * lo))
    IN result # <<>> =>
         /\ result[1].statistics.hasVariance <=> (two /\ far)
         /\ result[1].statistics.hasVariance
              <=> hasSignificantVariance(cardValues)

\* a revealed round with 0.5, 3 and "?": the difference of the numeric
\* submissions is 2.5 and the Result has variance
C33_Witness ==
  \E roomId \in DOMAIN db.rooms :
    LET result == calculateEstimationResult(db, roomId)
    IN /\ result # <<>>
       /\ { result[1].cards[k].cardValue : k \in 1..Len(result[1].cards) }
            = {"0.5", "3", "?"}
       /\ result[1].statistics.hasVariance

\* the number of submissions of a value among the card values
Held(cardValues, v) ==
  Cardinality({ i \in 1..Len(cardValues) : cardValues[i] = v })

\* C34 as stated: the majority card of the pattern classification of a
\* revealed round is the value held by strictly more than half of all
\* submissions whenever there is one, also when all submissions share one
\* value, and null exactly when no value is held by more than half.
C34_MajorityWheneverHeld ==
  \A roomId \in DOMAIN db.rooms :
    LET patterns == getEstimationPatterns(db, roomId)
        cardValues == RevealedCardValues(db, roomId)
    IN patterns # <<>> =>
         /\ \A v \in Range(cardValues) :
              2 * Held(cardValues, v) > Len(cardValues)
                => patterns[1].majorityCard = <<v>>
         /\ patterns[1].majorityCard = <<>>
              <=> \A v \in Range(cardValues) :
                    2 * Held(cardValues, v) <= Len(cardValues)

\* C34: the majority card of the pattern classification of a revealed round
\* is the value held by strictly more than half of all submissions whenever
\* the submissions hold at least two distinct values and one of them is held
\* by more than half; it is null when no value is held by more than half and
\* when all submissions share one value, which is reported as consensus.
C34_MajorityUnlessConsensus ==
  \A roomId \in DOMAIN db.rooms :
    LET patterns == getEstimationPatterns(db, roomId)
        cardValues == RevealedCardValues(db, roomId)
        distinct == Cardinality(Range(cardValues))
    IN patterns # <<>> =>
         /\ patterns[1].consensus <=> distinct = 1
         /\ \A v \in Range(cardValues) :
              (distinct >= 2 /\ 2 * Held(cardValues, v) > Len(cardValues))
                => patterns[1].majorityCard = <<v>>
         /\ patterns[1].majorityCard = <<>>
              <=> \/ distinct = 1
                  \/ \A v \in Range(cardValues) :
                       2 * Held(cardValues, v) <= Len(cardValues)

\* a revealed round with two 3s and an 8: the majority card is 3
C34_Witness ==
  \E roomId \in DOMAIN db.rooms :
    LET patterns == getEstimationPatterns(db, roomId)
    IN /\ patterns # <<>>
       /\ Len(RevealedCardValues(db, roomId)) = 3
       /\ Range(RevealedCardValues(db, roomId)) = {"3", "8"}
       /\ patterns[1].majorityCard = <<"3">>

\* C35: calculateEstimationResult, getCardDistribution, getVarianceAnalysis
\* and getEstimationPatterns return null when the room does not exist, has no
\* current round or has an unrevealed one, and a value for every revealed
\* round, also one without submissions.
C35_NullUnlessRevealed ==
  \A roomId \in {StatsRoom, <<"Z">>} :
    LET revealed == /\ roomId \in DOMAIN db.rooms
                    /\ db.rooms[roomId].currentRound # <<>>
                    /\ db.rooms[roomId].currentRound[1].isRevealed
    IN /\ calculateEstimationResult(db, roomId) # <<>> <=> revealed
       /\ getCardDistribution(db, roomId) # <<>> <=> revealed
       /\ getVarianceAnalysis(db, roomId) # <<>> <=> revealed
       /\ getEstimationPatterns(db, roomId) # <<>> <=> revealed

\* a revealed round without submissions, for which every accessor has a value
C35_Witness ==
  /\ StatsRoom \in DOMAIN db.rooms
  /\ db.rooms[StatsRoom].currentRound # <<>>
  /\ db.rooms[StatsRoom].currentRound[1].isRevealed
  /\ db.rooms[StatsRoom].currentRound[1].cards = <<>>
  /\ calculateEstimationResult(db, StatsRoom) # <<>>
  /\ getCardDistribution(db, StatsRoom) = <<<<>>>>
  /\ getVarianceAnalysis(db, StatsRoom) # <<>>
  /\ getEstimationPatterns(db, StatsRoom) # <<>>

\* the notifications of a room to the connections attached to it
RoomEvents ==
  {"player-selection-status", "round-started", "cards-revealed",
   "player-joined"}

\* C36: after a connection's leave-room has been handled, the connection
\* receives no notification of the room it left (player-selection-status,
\* round-started, cards-revealed, player-joined) caused by an action of a
\* participant that remains in the room.
C36_SilentAfterLeave ==
  last.act = "leave-room" =>
    \A s \in connected \ Bound : \A t \in Bound :
      getPlayerRoom(db, socketPlayerMap[t]) # <<>> =>
        \A res \in BoundActions(t) : \A k \in 1..Len(res.out) :
          res.out[k].ev \in RoomEvents => s \notin res.out[k].to

\* the step is a start-round that succeeds
IsStartRound ==
  \E s \in Sockets :
    handleStartRound(State, s).ok /\ db' = handleStartRound(State, s).st.db

\* the step is a reveal-cards that succeeds
IsRevealCards ==
  \E s \in Sockets :
    handleRevealCards(State, s).ok /\ db' = handleRevealCards(State, s).st.db

\* C37: the round of a room moves only from none to collecting by start-round,
\* from collecting to revealed by reveal-cards and from any state to an empty
\* collecting round by start-round: a revealed round stops being revealed
\* only by start-round, and once a room has a round no step makes it absent.
C37_RoundTransitions ==
  [][\A roomId \in DOMAIN db.rooms \cap DOMAIN db'.rooms :
       LET before == RoundState(db, <<roomId>>)
           after == RoundState(db', <<roomId>>)
       IN /\ before # "none" => after # "none"
          /\ (before = "revealed" /\ after # "revealed") => IsStartRound
          /\ before # after =>
               \/ /\ IsStartRound
                  /\ after = "collecting"
                  /\ getCurrentRound(db', roomId)[1].cards = EmptyMap
               \/ /\ IsRevealCards
                  /\ before = "collecting"
                  /\ after = "revealed"]_vars

\* a round started over a revealed round in a room that has had submissions
C37_Witness ==
  /\ last.act = "start-round"
  /\ last.preRound = "revealed"
  /\ \E roomId \in DOMAIN db.rooms :
       /\ RoundState(db, <<roomId>>) = "collecting"
       /\ getCurrentRound(db, roomId)[1].cards = EmptyMap

\* C38: while the round of a room is unrevealed, every submission it records
\* belongs to a participant of the room that is marked active.
C38_SubmissionsOfActive ==
  \A roomId \in DOMAIN db.rooms :
    RoundState(db, <<roomId>>) = "collecting" =>
      \A playerId \in MapKeys(getCurrentRound(db, roomId)[1].cards) :
        \E i \in 1..Len(db.rooms[roomId].players) :
          /\ db.rooms[roomId].players[i].id = playerId
          /\ db.rooms[roomId].players[i].isConnected

\* the round state a browser shows for a round state of the server
Shown(state) ==
  CASE state = "none" -> "WAITING"
    [] state = "collecting" -> "ACTIVE"
    [] state = "revealed" -> "REVEALED"

\* C39: when every notification emitted so far has been delivered, in order,
\* a browser that is connected and in a room shows the round state of the
\* server's round of that room (WAITING without a round, ACTIVE for an
\* unrevealed and REVEALED for a revealed one), and in REVEALED it holds the
\* Result of that round.
C39_ViewFollowsServer ==
  \A s \in connected :
    view[s].room # <<>> =>
      /\ view[s].roundState = Shown(RoundState(db, view[s].room))
      /\ view[s].roundState = "REVEALED" =>
           view[s].estimationResult
             = calculateEstimationResult(db, view[s].room[1])

\* two names that are equal up to case and surrounding whitespace
Similar(n, m) == toLowerCase(trim(n)) = toLowerCase(trim(m))

\* C40: joinRoom compares names without regard to case and to leading and
\* trailing whitespace: a join under a name that equals the stored name of an
\* active participant of the room up to case and surrounding whitespace is
\* rejected with 'Player name already taken in this room' and changes nothing,
\* so the stored names of the active participants of a room are pairwise
\* different.
C40_JoinComparesTrimmedNames ==
  \A roomId \in DOMAIN db.rooms :
    LET players == db.rooms[roomId].players
        active == { i \in 1..Len(players) : players[i].isConnected }
    IN /\ \A playerName \in NameInputs :
            (\E i \in active : Similar(players[i].name, playerName)) =>
              LET result == joinRoom(db, roomId, playerName, uuidv4)
              IN /\ ~result.success
                 /\ result.error = "Player name already taken in this room"
                 /\ result.db = db
       /\ \A i, j \in active :
            i # j => ~Similar(players[i].name, players[j].name)

====
